---- MODULE Spec2Model ----
(***************************************************************************)
(* Encrypted overlay networks: the IPsec control plane of the overlay      *)
(* driver (setKeys, setupEncryption, removeEncryption, updateKeys) and     *)
(* the XFRM state it programs in the kernel.                               *)
(*                                                                         *)
(* Every handler takes encrMu, runs its in-memory prologue, issues its     *)
(* kernel calls one at a time (action Xfrm) and runs its epilogue.  The    *)
(* kernel state between two kernel calls is therefore a state of the       *)
(* model, visible to an external lister.                                   *)
(***************************************************************************)
EXTENDS Integers, Sequences, FiniteSets, TLC

VARIABLES
    keys,           \* d.keys: the ordered key list, index 0 is the primary
    secMap,         \* d.secMap: remote address -> encrNode{spi, count}
    xfrmStates,     \* the kernel's Security Associations
    xfrmPolicies,   \* the kernel's Security Policies
    encrMu,         \* d.encrMu: 1 while locked, else 0
    mu,             \* d.mu: 1 while locked, else 0
    pc,             \* position of the running handler
    op,             \* the running call (arguments, locals, the driver state it found)
                    \* or the last finished one (arguments and result; fresh: its
                    \* remote had no secMap entry when it was called; again: it
                    \* directly follows a successful setupEncryption of its remote)
    script,         \* kernel calls the running handler still has to issue
    klog,           \* kernel mutation calls issued so far by the running call
    calls,          \* driver calls made so far
    lastErr,        \* TRUE when the existence query of the last kernel request failed
    faults,         \* TRUE when the kernel's XFRM calls may fail
    network,        \* a network of the driver: its configured mtu, its secure flag
    mtuRet,         \* what the last maxMTU call on the network returned, if any
    iptable,        \* the packet-filter chains, per IP version and <<table, chain>>
    fwRet,          \* the last programMangle / programInput call and its result, if any
    sigc,           \* Trap's channel c: the signals delivered and not yet processed
    interruptCount, \* Trap's interruptCount
    cleanups,       \* how many times Trap has started cleanup
    exitCode,       \* the exit code of the process, 0 while it runs
    received,       \* number of SIGINT and SIGTERM signals the process has received
    volumes,        \* the volume store: volume name -> name of its driver
    volRet,         \* the last call of the volume service and its result, if any
    retries,        \* the retry count of the plugin client
    backoffRet,     \* what backoff(retries) returned, if it was called
    cluster,        \* two nodes that are peers of each other: for each its driver
                    \* (key list, SPI list of the peer, running updateKeys) and kernel
    cfg,            \* CopyStreams' cfg: which client streams are attached, TTY, CloseStdin
    copier,         \* the copy goroutine of each stream: "none", "copying" or "done"
    closed,         \* the pipes and client streams closed so far
    ctxDone,        \* TRUE once CopyStreams' context is cancelled
    group,          \* the errgroup's error: the first non-nil one a copy returned
    groupErr,       \* the channel groupErr (capacity 1)
    errs,           \* the channel errs that CopyStreams returns (capacity 1)
    selector,       \* position of the goroutine that selects and sends on errs
    waiter,         \* position of the goroutine that sends group.Wait() on groupErr
    val             \* the value the selecting goroutine is about to send

\* The encryption state of the driver and of the kernel.
encryption == <<keys, secMap, xfrmStates, xfrmPolicies, encrMu, mu, pc, op, script, klog,
                lastErr, calls, faults>>

\* What the handlers of the encryption state never touch.
trapped == <<sigc, interruptCount, cleanups, exitCode, received>>
volumeService == <<volumes, volRet>>
pluginClient == <<retries, backoffRet>>
attached == <<cfg, copier, closed, ctxDone, group, groupErr, errs, selector, waiter, val>>
aside == <<network, mtuRet, iptable, fwRet, trapped, volumeService, pluginClient, cluster,
           attached>>

vars == <<encryption, aside>>

----------------------------------------------------------------------------
(* Bounds of the model *)

NumRemotes == 2     \* remote peers
NumTags == 3        \* distinct keys the coordinator may hand out
MaxKeys == 3        \* longest key list explored
MaxInitKeys == 2    \* longest key list handed to setKeys
MaxCount == 2       \* largest refcount explored
MaxUnderflow == 1   \* lowest refcount explored, negated
MaxCalls == 5       \* driver calls in one run
MaxFaultCalls == 3  \* driver calls in one run on a kernel whose calls may fail
MaxFairCalls == 3   \* driver calls in one run under the fair scheduler
MaxMTU == 1600      \* largest link MTU configured on a network
NumVNIs == 2        \* overlay network identifiers
MaxSignals == 6     \* signals sent to the process
NumVolumes == 2     \* volume names
MaxVolumeCalls == 4 \* calls of the volume service in one run
MaxRetries == 100   \* largest retry count of the plugin client
MaxCommands == 3    \* rotation commands the coordinator sends to the two nodes

----------------------------------------------------------------------------
(* Program constants *)

mark == 13681891            \* 0xD0C4E3
pktExpansion == 26
forward == 1
reverse == 2
bidir == 3

\* A reqid/mark another IPsec user of the host stamps on its own objects.
otherMark == mark + 1

----------------------------------------------------------------------------
(* Addresses and keys *)

bindAddress == <<192, 168, 0, 1>>
advertiseAddress == <<10, 0, 0, 1>>
Remotes == { <<10, 0, 0, 1 + i>> : i \in 1..NumRemotes }

\* A nil *key.
nil == [value |-> 0, tag |-> 0]

\* The keys the coordinator distributes: opaque bytes and a tag.
KeyPool == { [value |-> 100 + t, tag |-> t] : t \in 1..NumTags }

\* Go indexes from 0.
At(s, i) == s[i + 1]
InRange(s, i) == i >= 0 /\ i < Len(s)

\* The zero value of encrNode, which a map read of a missing key returns.
zeroNode == [spi |-> <<>>, count |-> 0]
Node(m, r) == IF r \in DOMAIN m THEN m[r] ELSE zeroNode
MapSet(m, r, n) == [x \in (DOMAIN m) \cup {r} |-> IF x = r THEN n ELSE m[x]]
MapDelete(m, r) == [x \in (DOMAIN m) \ {r} |-> m[x]]

----------------------------------------------------------------------------
(* buildSPI: 32-bit FNV-1a over src || be32(tag) || dst.  A 32-bit word is  *)
(* kept as <<high 16 bits, low 16 bits>>.                                  *)

RECURSIVE BitXor(_, _)
BitXor(a, b) ==
    IF a = 0 THEN b
    ELSE IF b = 0 THEN a
    ELSE (((a % 2) + (b % 2)) % 2) + 2 * BitXor(a \div 2, b \div 2)

fnvOffset32 == <<33052, 40389>>     \* 0x811C9DC5

\* <<hi, lo>> * 0x01000193 (mod 2^32), with 0x01000193 = 256 * 2^16 + 403
fnvMul(hi, lo) ==
    << (hi * 403 + lo * 256 + ((lo * 403) \div 65536)) % 65536, (lo * 403) % 65536 >>

\* h ^= b; h *= 0x01000193.  The running hash is bound once, as a value.
fnvWrite1(h, b) ==
    CHOOSE r \in { fnvMul(x[1], BitXor(x[2], b)) : x \in {h} } : TRUE

RECURSIVE fnvWrite(_, _)
fnvWrite(h, bytes) ==
    IF bytes = <<>> THEN h ELSE fnvWrite(fnvWrite1(h, Head(bytes)), Tail(bytes))

PutUint32(st) ==
    << (st \div 16777216) % 256, (st \div 65536) % 256, (st \div 256) % 256, st % 256 >>

buildSPI(src, dst, st) ==
    fnvWrite(fnvWrite(fnvWrite(fnvOffset32, src), PutUint32(st)), dst)

\* The spi{forward, reverse} literal of setupEncryption and updateNodeKey.
spiOf(aIP, rIP, tag) ==
    [forward |-> buildSPI(aIP, rIP, tag), reverse |-> buildSPI(rIP, aIP, tag)]

----------------------------------------------------------------------------
(* The kernel's XFRM tables, as the netlink handle shows them.  A state is  *)
(* looked up by destination and SPI, a policy by selector and mark.        *)

saMatch(a, b) == a.Dst = b.Dst /\ a.Spi = b.Spi
spMatch(a, b) == a.Src = b.Src /\ a.Dst = b.Dst /\ a.Mark = b.Mark

XfrmStateGet(S, sa) == \E x \in S : saMatch(x, sa)
XfrmStateAdd(S, sa) == IF XfrmStateGet(S, sa) THEN S ELSE S \cup {sa}
XfrmStateDel(S, sa) == { x \in S : ~saMatch(x, sa) }

XfrmPolicyGet(P, sp) == \E x \in P : spMatch(x, sp)
XfrmPolicyAdd(P, sp) == IF XfrmPolicyGet(P, sp) THEN P ELSE P \cup {sp}
XfrmPolicyDel(P, sp) == { x \in P : ~spMatch(x, sp) }
XfrmPolicyUpdate(P, sp) == { x \in P : ~spMatch(x, sp) } \cup {sp}

\* Objects found in the kernel when the driver starts: left by a previous
\* instance of the driver (its mark) and by another IPsec user of the host.
oldPeer == <<10, 0, 0, 99>>
staleSA == [Src |-> bindAddress, Dst |-> oldPeer, Spi |-> <<1, 1>>, Reqid |-> mark, Aead |-> <<0>>]
otherSA == [Src |-> bindAddress, Dst |-> oldPeer, Spi |-> <<2, 2>>, Reqid |-> otherMark, Aead |-> <<0>>]
staleSP == [Src |-> bindAddress, Dst |-> oldPeer, Mark |-> mark, Tmpl |-> <<1, 1>>]
otherSP == [Src |-> bindAddress, Dst |-> oldPeer, Mark |-> otherMark, Tmpl |-> <<2, 2>>]

----------------------------------------------------------------------------
(* programSA, programSP: the kernel requests they make, in order.  A        *)
(* request is carried out by action Xfrm: the existence query, then the    *)
(* add or delete when the object is not yet in the requested state.        *)

Req(kind, add, obj) == [kind |-> kind, add |-> add, obj |-> obj]
panicReq == Req("panic", FALSE, nil)

buildAeadAlgo(k, s) == <<k.value, s>>

rSAof(localIP, remoteIP, spi, k, add) ==
    [Src |-> remoteIP, Dst |-> localIP, Spi |-> spi.reverse, Reqid |-> mark,
     Aead |-> IF add THEN buildAeadAlgo(k, spi.reverse) ELSE <<>>]

fSAof(localIP, remoteIP, spi, k, add) ==
    [Src |-> localIP, Dst |-> remoteIP, Spi |-> spi.forward, Reqid |-> mark,
     Aead |-> IF add THEN buildAeadAlgo(k, spi.forward) ELSE <<>>]

\* dir&reverse > 0 first, then dir&forward > 0
programSA(localIP, remoteIP, spi, k, dir, add) ==
    (IF (dir \div 2) % 2 = 1
        THEN << Req("SA", add, rSAof(localIP, remoteIP, spi, k, add)) >> ELSE <<>>)
    \o
    (IF dir % 2 = 1
        THEN << Req("SA", add, fSAof(localIP, remoteIP, spi, k, add)) >> ELSE <<>>)

\* An IPv4-mapped IPv6 address is cut to its 4-octet form.
getMinimalIP(ip) ==
    IF Len(ip) = 16 /\ SubSeq(ip, 1, 12) = <<0, 0, 0, 0, 0, 0, 0, 0, 0, 0, 255, 255>>
        THEN SubSeq(ip, 13, 16) ELSE ip

\* The outbound policy whose template requires fSA's transform.
fPolOf(fSA) ==
    [Src |-> getMinimalIP(fSA.Src), Dst |-> getMinimalIP(fSA.Dst), Mark |-> mark,
     Tmpl |-> fSA.Spi]

programSP(fSA, add) == << Req("SP", add, fPolOf(fSA)) >>

----------------------------------------------------------------------------
(* setupEncryption, removeEncryption: the kernel requests of their loops   *)

RECURSIVE setupLoop(_, _, _, _, _)
setupLoop(localIP, advIP, remoteIP, ks, i) ==
    IF i >= Len(ks) THEN <<>>
    ELSE LET k == At(ks, i)
             spis == spiOf(advIP, remoteIP, k.tag)
             dir == IF i = 0 THEN bidir ELSE reverse
         IN  programSA(localIP, remoteIP, spis, k, dir, TRUE)
             \o (IF i # 0 THEN <<>>
                 ELSE programSP(fSAof(localIP, remoteIP, spis, k, TRUE), TRUE))
             \o setupLoop(localIP, advIP, remoteIP, ks, i + 1)

\* indices: the SPI pair of every key, in key order
setupIndices(advIP, remoteIP, ks) ==
    [i \in 1..Len(ks) |-> spiOf(advIP, remoteIP, ks[i].tag)]

RECURSIVE removeLoop(_, _, _, _)
removeLoop(localIP, remoteIP, spi, i) ==
    IF i >= Len(spi) THEN <<>>
    ELSE LET idxs == At(spi, i)
             dir == IF i = 0 THEN bidir ELSE reverse
         IN  programSA(localIP, remoteIP, idxs, nil, dir, FALSE)
             \o (IF i # 0 THEN <<>>
                 ELSE programSP(fSAof(localIP, remoteIP, idxs, nil, FALSE), FALSE))
             \o removeLoop(localIP, remoteIP, spi, i + 1)

----------------------------------------------------------------------------
(* updateNodeKey: its kernel requests, up to the first index out of range, *)
(* and the SPI list it returns.                                            *)

RECURSIVE upToPanic(_)
upToPanic(s) ==
    IF s = <<>> THEN <<>>
    ELSE IF Head(s).kind = "panic" THEN << Head(s) >>
    ELSE << Head(s) >> \o upToPanic(Tail(s))

\* An "add new" that derives the pair with source and destination exchanged.
nodeAppendExchanged(aIP, rIP, idxs, curKeys, newIdx) ==
    IF newIdx # -1
        THEN Append(idxs, spiOf(rIP, aIP, At(curKeys, newIdx).tag))
        ELSE idxs

\* spis after "add new"
nodeAppend(aIP, rIP, idxs, curKeys, newIdx) ==
    IF newIdx # -1
        THEN Append(idxs, spiOf(aIP, rIP, At(curKeys, newIdx).tag))
        ELSE idxs

\* A promote that leaves the old primary's forward SA in the kernel.
updateNodeKeyCallsKeepOld(lIP, aIP, rIP, idxs, curKeys, newIdx, priIdx, delIdx) ==
    LET spis == nodeAppend(aIP, rIP, idxs, curKeys, newIdx)
        fSA2 == fSAof(lIP, rIP, At(spis, priIdx), At(curKeys, priIdx), TRUE)
    IN  IF priIdx > 0 /\ InRange(spis, priIdx)
          THEN programSA(lIP, rIP, At(spis, priIdx), At(curKeys, priIdx), forward, TRUE)
               \o << Req("SPUpdate", TRUE, fPolOf(fSA2)) >>
          ELSE <<>>

\* A prune that removes the reverse SA of the primary instead of the pruned
\* key's.
updateNodeKeyCallsDropPrimary(lIP, aIP, rIP, idxs, curKeys, newIdx, priIdx, delIdx) ==
    LET spis == nodeAppend(aIP, rIP, idxs, curKeys, newIdx)
        del == IF delIdx = -1 \/ spis = <<>> THEN <<>>
               ELSE programSA(lIP, rIP, At(spis, 0), nil, reverse, FALSE)
        new == IF ~(newIdx > -1) THEN <<>>
               ELSE programSA(lIP, rIP, At(spis, newIdx), At(curKeys, newIdx), reverse, TRUE)
        pri == IF ~(priIdx > 0 /\ InRange(spis, priIdx)) THEN <<>>
               ELSE LET fSA2 == fSAof(lIP, rIP, At(spis, priIdx), At(curKeys, priIdx), TRUE)
                    IN  programSA(lIP, rIP, At(spis, priIdx), At(curKeys, priIdx), forward, TRUE)
                        \o << Req("SPUpdate", TRUE, fPolOf(fSA2)) >>
                        \o programSA(lIP, rIP, At(spis, 0), nil, forward, FALSE)
    IN  del \o new \o pri

updateNodeKeyCalls(lIP, aIP, rIP, idxs, curKeys, newIdx, priIdx, delIdx) ==
    LET spis == nodeAppend(aIP, rIP, idxs, curKeys, newIdx)
        del == IF delIdx = -1 THEN <<>>
               ELSE IF ~InRange(spis, delIdx) THEN << panicReq >>
               ELSE programSA(lIP, rIP, At(spis, delIdx), nil, reverse, FALSE)
        new == IF ~(newIdx > -1) THEN <<>>
               ELSE IF ~InRange(spis, newIdx) THEN << panicReq >>
               ELSE programSA(lIP, rIP, At(spis, newIdx), At(curKeys, newIdx), reverse, TRUE)
        pri == IF ~(priIdx > 0) THEN <<>>
               ELSE IF ~InRange(spis, priIdx) THEN << panicReq >>
               ELSE LET fSA2 == fSAof(lIP, rIP, At(spis, priIdx), At(curKeys, priIdx), TRUE)
                    IN  programSA(lIP, rIP, At(spis, priIdx), At(curKeys, priIdx), forward, TRUE)
                        \o << Req("SPUpdate", TRUE, fPolOf(fSA2)) >>
                        \o programSA(lIP, rIP, At(spis, 0), nil, forward, FALSE)
    IN  upToPanic(del \o new \o pri)

\* The key at i moved to the front, the keys before it shifted by one.
moveToFront(s, i) == << s[i + 1] >> \o SubSeq(s, 1, i) \o SubSeq(s, i + 2, Len(s))

\* s[0], s[i] = s[i], s[0]
swap(s, i) ==
    [j \in 1..Len(s) |-> IF j = 1 THEN s[i + 1] ELSE IF j = i + 1 THEN s[1] ELSE s[j]]

\* append(s[:i], s[i+1:]...)
cut(s, i) == SubSeq(s, 1, i) \o SubSeq(s, i + 2, Len(s))

\* The index pruned after the swap: the old primary now sits at priIdx.
pruneIdx(priIdx, delIdx) == IF delIdx = 0 THEN priIdx ELSE delIdx

\* The swap and prune that end updateNodeKey and updateKeys; slicing out of
\* range panics.
swapPrunePanics(s, priIdx, delIdx) ==
    \/ priIdx > 0 /\ ~InRange(s, priIdx)
    \/ delIdx # -1 /\ ~InRange(s, pruneIdx(priIdx, delIdx))

swapPrune(s, priIdx, delIdx) ==
    LET s1 == IF priIdx > 0 THEN swap(s, priIdx) ELSE s
    IN  IF delIdx # -1 THEN cut(s1, pruneIdx(priIdx, delIdx)) ELSE s1

----------------------------------------------------------------------------
(* The running call *)

noOp ==
    [name |-> "none", rc |-> "", newKey |-> nil, primary |-> nil, pruneKey |-> nil,
     remote |-> <<>>, arg |-> <<>>, newIdx |-> -1, priIdx |-> -1, delIdx |-> -1,
     todo |-> {}, cur |-> <<>>, spis |-> <<>>, keys0 |-> <<>>, secMap0 |-> <<>>,
     fresh |-> FALSE, again |-> FALSE]

\* A call as it starts: its name and the driver state it found.
call(name) == [noOp EXCEPT !.name = name, !.rc = "running", !.keys0 = keys, !.secMap0 = secMap]

\* The call with its locals dropped and its result set.
returned(o, rc) ==
    [o EXCEPT !.rc = rc, !.todo = {}, !.cur = <<>>, !.spis = <<>>,
              !.keys0 = <<>>, !.secMap0 = <<>>]

\* The last call was a successful call of name for remote r.
succeeds(name, r) == op.name = name /\ op.rc = "nil" /\ op.remote = r

\* A handler that does not take the lock.
canLockAlways == TRUE

\* encrMu.Lock() returns only when the mutex is free.
canLock == encrMu = 0

\* One more call enters the driver, from any caller, while the daemon lives.
enter ==
    /\ pc # "panic"
    /\ calls < (IF faults THEN MaxFaultCalls ELSE MaxCalls)
    /\ calls' = calls + 1

\* Failures the environment may inject into one kernel call.
mayFail == IF faults THEN {FALSE, TRUE} ELSE {FALSE}

RECURSIVE SetToSeq(_)
SetToSeq(S) ==
    IF S = {} THEN <<>>
    ELSE LET x == CHOOSE y \in S : TRUE IN << x >> \o SetToSeq(S \ {x})

----------------------------------------------------------------------------
(* Init: the driver as constructed (no keys, an empty secMap) on a host    *)
(* whose kernel still holds objects of a previous run.                     *)

InitDriver ==
    /\ keys = <<>>
    /\ secMap = <<>>
    /\ xfrmStates = {staleSA, otherSA}
    /\ xfrmPolicies = {staleSP, otherSP}
    /\ encrMu = 0
    /\ mu = 0
    /\ pc = "idle"
    /\ op = noOp
    /\ script = <<>>
    /\ klog = <<>>
    /\ lastErr = FALSE
    /\ calls = 0

\* A network with the default MTU and no encryption, not yet asked its MTU.
InitNetwork == network = [mtu |-> 0, secure |-> FALSE] /\ mtuRet = <<>>

\* The packet filter as the driver finds it: the administrator accepts all
\* incoming VXLAN traffic, nothing is marked.
acceptVXLAN == [pol |-> "", vni |-> 0, jump |-> "ACCEPT", setMark |-> 0]
Versions == {"IPv4", "IPv6"}
OUTPUT == <<"mangle", "OUTPUT">>
INPUT == <<"filter", "INPUT">>

InitFirewall ==
    /\ iptable = [v \in Versions |-> [c \in {OUTPUT, INPUT} |->
                     IF c = INPUT THEN << acceptVXLAN >> ELSE <<>>]]
    /\ fwRet = <<>>

\* Trap has been called: the channel is empty, the goroutine waits.
InitTrap ==
    /\ sigc = <<>>
    /\ interruptCount = 0
    /\ cleanups = 0
    /\ exitCode = 0
    /\ received = 0

\* newTestService: an empty volume store.
InitVolumes == volumes = <<>> /\ volRet = <<>>

\* The plugin client before any retry.
InitPlugin == retries = 0 /\ backoffRet = <<>>

\* No peer node is followed.
InitCluster == cluster = <<>>

\* The client streams of an attach: cfg.Stdin, cfg.Stdout, cfg.Stderr.
Streams == {"Stdin", "Stdout", "Stderr"}

\* The container's pipe of a client stream: cfg.CStdin, cfg.CStdout, cfg.CStderr.
\* A pipe is set exactly when its client stream is.
pipeOf(s) == "C" \o s

\* The attach configurations: TRUE for a stream that is not nil.
Configs == [Stdin : BOOLEAN, Stdout : BOOLEAN, Stderr : BOOLEAN,
            TTY : BOOLEAN, CloseStdin : BOOLEAN]

\* CopyStreams(ctx, c) has returned its channel: one copy goroutine per stream
\* that is not nil, the channels empty, the selecting goroutines started.
CopyStreams(c) ==
    /\ cfg = c
    /\ copier = [s \in Streams |-> IF c[s] THEN "copying" ELSE "none"]
    /\ closed = {}
    /\ ctxDone = FALSE
    /\ group = "nil"
    /\ groupErr = <<>>
    /\ errs = <<>>
    /\ selector = "select"
    /\ waiter = "wait"
    /\ val = "nil"

\* An attach of no stream at all.
InitDetached ==
    CopyStreams([Stdin |-> FALSE, Stdout |-> FALSE, Stderr |-> FALSE,
                 TTY |-> FALSE, CloseStdin |-> FALSE])

\* The state outside the encryption state, before anything has used it.
InitServices ==
    InitFirewall /\ InitTrap /\ InitVolumes /\ InitPlugin /\ InitCluster /\ InitDetached

Init == InitDriver /\ InitNetwork /\ InitServices /\ faults = FALSE

----------------------------------------------------------------------------
(* Xfrm: the next kernel request of the running handler *)

\* programSA / programSP without the existence query: the add or delete is
\* always issued.
programBlind(q, qf, mf) ==
    LET callName == IF q.kind = "SA"
                      THEN (IF q.add THEN "XfrmStateAdd" ELSE "XfrmStateDel")
                      ELSE (IF q.add THEN "XfrmPolicyAdd" ELSE "XfrmPolicyDel")
    IN  /\ lastErr' = FALSE
        /\ klog' = Append(klog, [call |-> callName, obj |-> q.obj, ok |-> ~mf])
        /\ xfrmStates' =
             IF q.kind # "SA" \/ mf THEN xfrmStates
             ELSE IF q.add THEN XfrmStateAdd(xfrmStates, q.obj)
             ELSE XfrmStateDel(xfrmStates, q.obj)
        /\ xfrmPolicies' =
             IF q.kind # "SP" \/ mf THEN xfrmPolicies
             ELSE IF q.add THEN XfrmPolicyAdd(xfrmPolicies, q.obj)
             ELSE XfrmPolicyDel(xfrmPolicies, q.obj)

\* A failed query taken for "not found".
existsOrAbsent(add, found, qf) == IF qf THEN FALSE ELSE found

\* exists, err := saExists(sa); if err != nil { lastErr = err; exists = !add }
exists(add, found, qf) == IF qf THEN ~add ELSE found

\* programSA / programSP on one object: query, then add or delete when the
\* object is not in the requested state.  qf: the query fails with an error
\* other than "not found"; mf: the add/delete call fails.
program(q, qf, mf) ==
    LET found == IF q.kind = "SA" THEN XfrmStateGet(xfrmStates, q.obj)
                                  ELSE XfrmPolicyGet(xfrmPolicies, q.obj)
        callName == IF q.kind = "SA"
                      THEN (IF q.add THEN "XfrmStateAdd" ELSE "XfrmStateDel")
                      ELSE (IF q.add THEN "XfrmPolicyAdd" ELSE "XfrmPolicyDel")
    IN  /\ lastErr' = qf
        /\ IF q.add = exists(q.add, found, qf)
             THEN UNCHANGED <<xfrmStates, xfrmPolicies, klog>>
             ELSE /\ klog' = Append(klog, [call |-> callName, obj |-> q.obj, ok |-> ~mf])
                  /\ xfrmStates' =
                       IF q.kind # "SA" \/ mf THEN xfrmStates
                       ELSE IF q.add THEN XfrmStateAdd(xfrmStates, q.obj)
                       ELSE XfrmStateDel(xfrmStates, q.obj)
                  /\ xfrmPolicies' =
                       IF q.kind # "SP" \/ mf THEN xfrmPolicies
                       ELSE IF q.add THEN XfrmPolicyAdd(xfrmPolicies, q.obj)
                       ELSE XfrmPolicyDel(xfrmPolicies, q.obj)

\* XfrmPolicyUpdate, and the XfrmPolicyDel / XfrmStateDel of the cleanup:
\* issued without a query.
direct(q, mf) ==
    LET callName == CASE q.kind = "SPUpdate" -> "XfrmPolicyUpdate"
                      [] q.kind = "SPDel" -> "XfrmPolicyDel"
                      [] OTHER -> "XfrmStateDel"
    IN  /\ lastErr' = FALSE
        /\ klog' = Append(klog, [call |-> callName, obj |-> q.obj, ok |-> ~mf])
        /\ xfrmStates' =
             IF q.kind = "SADel" /\ ~mf THEN XfrmStateDel(xfrmStates, q.obj) ELSE xfrmStates
        /\ xfrmPolicies' =
             IF mf THEN xfrmPolicies
             ELSE IF q.kind = "SPUpdate" THEN XfrmPolicyUpdate(xfrmPolicies, q.obj)
             ELSE IF q.kind = "SPDel" THEN XfrmPolicyDel(xfrmPolicies, q.obj)
             ELSE xfrmPolicies

Xfrm ==
    /\ pc = "xfrm"
    /\ script # <<>>
    /\ Head(script).kind # "panic"
    /\ \E qf \in mayFail, mf \in mayFail :
        LET q == Head(script)
        IN  /\ (qf => q.kind \in {"SA", "SP"})
            /\ IF q.kind \in {"SA", "SP"} THEN program(q, qf, mf) ELSE direct(q, mf)
    /\ script' = Tail(script)
    /\ UNCHANGED <<keys, secMap, encrMu, pc, op, calls, faults, mu, aside>>

\* An index or slice out of range: the handler unwinds (its deferred Unlock
\* runs) and the daemon dies.
panic ==
    /\ pc' = "panic"
    /\ klog' = <<>> /\ lastErr' = FALSE
    /\ encrMu' = 0
    /\ op' = returned(op, "panic")
    /\ script' = <<>>

\* return rc, with the deferred d.encrMu.Unlock()
return(o, rc) ==
    /\ pc' = "idle"
    /\ klog' = <<>> /\ lastErr' = FALSE
    /\ encrMu' = 0
    /\ op' = returned(o, rc)
    /\ script' = <<>>

----------------------------------------------------------------------------
(* setupEncryption(remoteIP) *)

\* setupEncryption without its check of the key list.
noKeysUnchecked(ks) == FALSE

\* len(d.keys) == 0
noKeys(ks) == Len(ks) = 0

\* d.mu.Lock(); localIP, advIP := d.bindAddress, d.advertiseAddress; d.mu.Unlock()
\* The addresses read, and d.mu as the three statements leave it.
addresses == [localIP |-> bindAddress, advIP |-> advertiseAddress, mu |-> 0]

setupEncryption(remoteIP) ==
    /\ canLock /\ enter
    /\ Node(secMap, remoteIP).count < MaxCount
    /\ klog' = <<>> /\ lastErr' = FALSE
    /\ LET o == [call("setupEncryption") EXCEPT !.remote = remoteIP,
                                                !.fresh = remoteIP \notin DOMAIN secMap,
                                                !.again = succeeds("setupEncryption", remoteIP)]
       IN  IF noKeys(keys)
             THEN return(o, "ForbiddenError") /\ mu' = mu
             ELSE /\ encrMu' = 1
                  /\ mu = 0
                  /\ mu' = addresses.mu
                  /\ pc' = "xfrm"
                  /\ op' = [o EXCEPT !.spis = setupIndices(addresses.advIP, remoteIP, keys)]
                  /\ script' = setupLoop(addresses.localIP, addresses.advIP, remoteIP, keys, 0)
    /\ UNCHANGED <<keys, secMap, xfrmStates, xfrmPolicies, faults, aside>>

\* setupEncryption escalating a failed kernel call: an error, no entry.
setupEncryptionReturnEscalating ==
    /\ pc = "xfrm" /\ script = <<>> /\ op.name = "setupEncryption"
    /\ IF \E i \in 1..Len(klog) : ~klog[i].ok
         THEN secMap' = secMap /\ return(op, "error")
         ELSE /\ secMap' = MapSet(secMap, op.remote,
                                  [spi |-> op.spis, count |-> Node(secMap, op.remote).count + 1])
              /\ return(op, "nil")
    /\ UNCHANGED <<keys, xfrmStates, xfrmPolicies, calls, faults, mu, aside>>

setupEncryptionReturn ==
    /\ pc = "xfrm" /\ script = <<>> /\ op.name = "setupEncryption"
    /\ LET node == Node(secMap, op.remote)
       IN  secMap' = MapSet(secMap, op.remote, [spi |-> op.spis, count |-> node.count + 1])
    /\ return(op, "nil")
    /\ UNCHANGED <<keys, xfrmStates, xfrmPolicies, calls, faults, mu, aside>>

----------------------------------------------------------------------------
(* removeEncryption(remoteIP) *)

\* removeEncryption without its reference count: every call tears the peer down.
removeNodeUncounted(m, remoteIP) ==
    [map |-> MapDelete(m, remoteIP), spi |-> Node(m, remoteIP).spi]

\* The map after the refcount step, and the SPI list left to tear down.
removeNode(m, remoteIP) ==
    LET node == Node(m, remoteIP)
    IN  IF node.count = 1
          THEN [map |-> MapDelete(m, remoteIP), spi |-> node.spi]
          ELSE [map |-> MapSet(m, remoteIP, [node EXCEPT !.count = @ - 1]), spi |-> <<>>]

removeEncryption(remoteIP) ==
    /\ canLock /\ enter
    /\ Node(secMap, remoteIP).count > -MaxUnderflow
    /\ klog' = <<>> /\ lastErr' = FALSE
    /\ encrMu' = 1
    /\ pc' = "xfrm"
    /\ op' = [call("removeEncryption") EXCEPT !.remote = remoteIP,
                                               !.fresh = remoteIP \notin DOMAIN secMap]
    /\ secMap' = removeNode(secMap, remoteIP).map
    /\ script' = removeLoop(bindAddress, remoteIP, removeNode(secMap, remoteIP).spi, 0)
    /\ UNCHANGED <<keys, xfrmStates, xfrmPolicies, faults, mu, aside>>

removeEncryptionReturn ==
    /\ pc = "xfrm" /\ script = <<>> /\ op.name = "removeEncryption"
    /\ return(op, "nil")
    /\ UNCHANGED <<keys, secMap, xfrmStates, xfrmPolicies, calls, faults, mu, aside>>

----------------------------------------------------------------------------
(* setKeys(keys), with clearEncryptionStates *)

\* clearEncryptionStates deleting whatever the kernel lists.
clearEncryptionStatesUnmarked(spList, saList) ==
    [i \in 1..Len(spList) |-> Req("SPDel", FALSE, spList[i])]
    \o [i \in 1..Len(saList) |-> Req("SADel", FALSE, saList[i])]

\* The deletions clearEncryptionStates issues for the lists it retrieved:
\* the policies carrying spMark, then the states whose Reqid is mark.
clearEncryptionStates(spList, saList) ==
    LET marked(sp) == sp.Mark = mark
        requested(sa) == sa.Reqid = mark
        sps == SelectSeq(spList, marked)
        sas == SelectSeq(saList, requested)
    IN  [i \in 1..Len(sps) |-> Req("SPDel", FALSE, sps[i])]
        \o [i \in 1..Len(sas) |-> Req("SADel", FALSE, sas[i])]

\* XfrmPolicyList / XfrmStateList(netlink.FAMILY_ALL) as the log records it.
listCall(callName, ok) == [call |-> callName, obj |-> [Family |-> "FAMILY_ALL"], ok |-> ok]

\* Key lists the coordinator hands to setKeys: its first keys, in tag order.
KeyLists ==
    { [i \in 1..n |-> [value |-> 100 + i, tag |-> i]] : n \in 0..MaxInitKeys }

setKeys(ks) ==
    /\ canLock /\ enter
    /\ encrMu' = 1
    /\ pc' = "xfrm"
    /\ op' = [call("setKeys") EXCEPT !.arg = ks]
    /\ \E spf \in mayFail, saf \in mayFail :
        LET spList == IF spf THEN <<>> ELSE SetToSeq(xfrmPolicies)
            saList == IF saf THEN <<>> ELSE SetToSeq(xfrmStates)
        IN  /\ lastErr' = FALSE
            /\ klog' = << listCall("XfrmPolicyList", ~spf), listCall("XfrmStateList", ~saf) >>
            /\ script' = clearEncryptionStates(spList, saList)
    /\ UNCHANGED <<keys, secMap, xfrmStates, xfrmPolicies, faults, mu, aside>>

\* setKeys assigning the keys without waiting for the cleanup.
setKeysReturnEarly ==
    /\ pc = "xfrm" /\ op.name = "setKeys"
    /\ secMap' = <<>>
    /\ keys' = op.arg
    /\ return(op, "nil")
    /\ UNCHANGED <<xfrmStates, xfrmPolicies, calls, faults, mu, aside>>

setKeysReturn ==
    /\ pc = "xfrm" /\ script = <<>> /\ op.name = "setKeys"
    /\ secMap' = <<>>
    /\ keys' = op.arg
    /\ return(op, "nil")
    /\ UNCHANGED <<xfrmStates, xfrmPolicies, calls, faults, mu, aside>>

----------------------------------------------------------------------------
(* updateKeys(newKey, primary, pruneKey) *)

Max(S) == CHOOSE x \in S : \A y \in S : y <= x

\* The index the range loop leaves for key k: the last one with k's tag.
keyIdx(ks, k) ==
    LET M == { i \in 0..(Len(ks) - 1) : k # nil /\ At(ks, i).tag = k.tag }
    IN  IF M = {} THEN -1 ELSE Max(M)

\* d.keys after "add new"
keysAppend(ks, newKey) == IF newKey # nil THEN Append(ks, newKey) ELSE ks

\* The two rejections.
invalidIndices(newKey, primary, pruneKey, newIdx, priIdx, delIdx) ==
    \/ newKey # nil /\ newIdx = -1
    \/ primary # nil /\ priIdx = -1
    \/ pruneKey # nil /\ delIdx = -1

\* updateKeys without its second check.
primaryAndPrunedUnchecked(priIdx, delIdx) == FALSE

primaryAndPruned(priIdx, delIdx) == priIdx # -1 /\ priIdx = delIdx

updateKeys(newKey, primary, pruneKey) ==
    /\ canLock /\ enter
    /\ newKey # nil => Len(keys) < MaxKeys
    /\ klog' = <<>> /\ lastErr' = FALSE
    /\ LET ks == keysAppend(keys, newKey)
           newIdx == IF newKey # nil THEN -1 + Len(ks) ELSE -1
           priIdx == keyIdx(ks, primary)
           delIdx == keyIdx(ks, pruneKey)
           o == [call("updateKeys") EXCEPT !.newKey = newKey, !.primary = primary,
                    !.pruneKey = pruneKey, !.newIdx = newIdx, !.priIdx = priIdx,
                    !.delIdx = delIdx]
       IN  /\ keys' = ks
           /\ IF \/ invalidIndices(newKey, primary, pruneKey, newIdx, priIdx, delIdx)
                 \/ primaryAndPruned(priIdx, delIdx)
                THEN return(o, "InvalidParameterError")
                ELSE /\ encrMu' = 1
                     /\ pc' = "loop"
                     /\ op' = [o EXCEPT !.todo = DOMAIN secMap]
                     /\ script' = <<>>
       /\ UNCHANGED <<secMap, xfrmStates, xfrmPolicies, faults, mu, aside>>

\* for rIP, node := range d.secMap: the next peer, in any order
updateNodeKey ==
    /\ pc = "loop"
    /\ \E rIP \in op.todo :
        /\ op' = [op EXCEPT !.todo = @ \ {rIP}, !.cur = rIP]
        /\ script' = updateNodeKeyCalls(bindAddress, advertiseAddress, rIP, secMap[rIP].spi,
                                        keys, op.newIdx, op.priIdx, op.delIdx)
    /\ pc' = "xfrm"
    /\ UNCHANGED <<keys, secMap, xfrmStates, xfrmPolicies, encrMu, klog, lastErr, calls, faults, mu, aside>>

updateNodeKeyReturn ==
    /\ pc = "xfrm" /\ script = <<>> /\ op.name = "updateKeys"
    /\ LET node == secMap[op.cur]
           spis == nodeAppend(advertiseAddress, op.cur, node.spi, keys, op.newIdx)
       IN  IF swapPrunePanics(spis, op.priIdx, op.delIdx)
             THEN panic /\ secMap' = secMap
             ELSE /\ secMap' = [secMap EXCEPT
                        ![op.cur] = [spi |-> swapPrune(spis, op.priIdx, op.delIdx),
                                     count |-> node.count]]
                  /\ pc' = "loop"
                  /\ op' = [op EXCEPT !.cur = <<>>]
                  /\ UNCHANGED <<encrMu, script, klog, lastErr>>
    /\ UNCHANGED <<keys, xfrmStates, xfrmPolicies, calls, faults, mu, aside>>

\* updateNodeKey indexes spis out of range
updateNodeKeyPanic ==
    /\ pc = "xfrm" /\ script # <<>> /\ Head(script).kind = "panic"
    /\ panic
    /\ UNCHANGED <<keys, secMap, xfrmStates, xfrmPolicies, calls, faults, mu, aside>>

updateKeysReturn ==
    /\ pc = "loop" /\ op.todo = {}
    /\ IF swapPrunePanics(keys, op.priIdx, op.delIdx)
         THEN panic /\ keys' = keys
         ELSE /\ keys' = swapPrune(keys, op.priIdx, op.delIdx)
              /\ return(op, "nil")
    /\ UNCHANGED <<secMap, xfrmStates, xfrmPolicies, calls, faults, mu, aside>>

----------------------------------------------------------------------------
Keys == KeyPool \cup {nil}

Next ==
    \/ \E ks \in KeyLists : setKeys(ks)
    \/ setKeysReturn
    \/ \E r \in Remotes : setupEncryption(r)
    \/ setupEncryptionReturn
    \/ \E r \in Remotes : removeEncryption(r)
    \/ removeEncryptionReturn
    \/ \E n \in Keys, p \in Keys, d \in Keys : updateKeys(n, p, d)
    \/ updateNodeKey
    \/ updateNodeKeyReturn
    \/ updateNodeKeyPanic
    \/ updateKeysReturn
    \/ Xfrm

Spec == Init /\ [][Next]_vars

\* The same driver on a kernel whose XFRM calls may fail.
InitFault == InitDriver /\ InitNetwork /\ InitServices /\ faults = TRUE

SpecFault == InitFault /\ [][Next]_vars

\* The steps of the call that holds encrMu: its kernel calls, which
\* terminate, and the code between them.
running ==
    \/ Xfrm
    \/ setKeysReturn
    \/ setupEncryptionReturn
    \/ removeEncryptionReturn
    \/ updateNodeKey
    \/ updateNodeKeyReturn
    \/ updateNodeKeyPanic
    \/ updateKeysReturn

\* A caller calls the driver.
called ==
    \/ \E ks \in KeyLists : setKeys(ks)
    \/ \E r \in Remotes : setupEncryption(r)
    \/ \E r \in Remotes : removeEncryption(r)
    \/ \E n \in Keys, p \in Keys, d \in Keys : updateKeys(n, p, d)

NextFair ==
    \/ calls < MaxFairCalls /\ called
    \/ running

\* The driver under a fair scheduler: the call that holds the lock is not
\* left waiting forever.
SpecFair == Init /\ [][NextFair]_vars /\ WF_vars(running)

----------------------------------------------------------------------------
(* maxMTU *)

\* Encapsulation overhead of the overlay: outer Ethernet, IP, UDP and VXLAN
\* headers.
vxlanEncap == 50

defaultMTU == 1500

\* Go's %: the remainder has the sign of the dividend.
rem(a, b) == IF a >= 0 THEN a % b ELSE -((-a) % b)

maxMTU(n) ==
    LET mtu0 == IF n.mtu # 0 THEN n.mtu ELSE defaultMTU
        mtu1 == mtu0 - vxlanEncap
        mtu2 == mtu1 - pktExpansion
    IN  IF n.secure THEN mtu2 - rem(mtu2, 4) ELSE mtu1

\* The networks of the driver: any link MTU, 0 when none is configured.
Networks == [mtu : 0..MaxMTU, secure : BOOLEAN]

callMaxMTU ==
    /\ mtuRet' = << maxMTU(network) >>
    /\ UNCHANGED <<encryption, cluster, attached, volumeService, pluginClient, network, iptable, fwRet, trapped>>

InitMTU ==
    /\ InitDriver /\ InitServices /\ faults = FALSE
    /\ network \in Networks /\ mtuRet = <<>>

NextMTU == callMaxMTU

SpecMTU == InitMTU /\ [][NextMTU]_vars

----------------------------------------------------------------------------
(* programMangle, programInput: the packet-filter rules of a VNI *)

VNIs == 1..NumVNIs

\* d.isIPv6Transport(): the family of the transport address, or an error.
Transports == { [v6 |-> FALSE, err |-> "nil"], [v6 |-> TRUE, err |-> "nil"],
                [v6 |-> FALSE, err |-> "no transport address"] }

\* transportIPTable falling back to IPv4 when the family is unknown.
transportIPTableFallback(t) ==
    [version |-> IF t.v6 /\ t.err = "nil" THEN "IPv6" ELSE "IPv4", err |-> "nil"]

transportIPTable(t) ==
    IF t.err # "nil" THEN [version |-> "none", err |-> t.err]
    ELSE [version |-> IF t.v6 THEN "IPv6" ELSE "IPv4", err |-> "nil"]

\* matchVXLAN(port, vni) ... -j MARK --set-mark mark
mangleRule(vni) == [pol |-> "", vni |-> vni, jump |-> "MARK", setMark |-> mark]

\* -m policy --dir in --pol none matchVXLAN(port, vni) ... -j DROP
inputRule(vni) == [pol |-> "none", vni |-> vni, jump |-> "DROP", setMark |-> 0]

Range(q) == { q[i] : i \in 1..Len(q) }

RECURSIVE removeRule(_, _)
removeRule(q, rule) ==
    IF q = <<>> THEN <<>>
    ELSE IF Head(q) = rule THEN Tail(q)
    ELSE << Head(q) >> \o removeRule(Tail(q), rule)

\* iptable.ProgramRule(table, chain, action, rule) on the rules q of the
\* chain: nothing to do when the rule is already in the requested state,
\* else the iptables command, which may fail (fail).
ProgramRule(q, action, rule, fail) ==
    IF (rule \in Range(q)) # (action = "-D") THEN [chain |-> q, err |-> "nil"]
    ELSE IF fail THEN [chain |-> q, err |-> "exit status 1"]
    ELSE [chain |-> CASE action = "-A" -> Append(q, rule)
                      [] action = "-I" -> << rule >> \o q
                      [] OTHER -> removeRule(q, rule),
          err |-> "nil"]

\* The call as fwRet keeps it.
fwCall(name, vni, add, t, msg, err) ==
    << [name |-> name, vni |-> vni, add |-> add, transport |-> t, msg |-> msg, err |-> err] >>

programMangle(vni, add) ==
    \E t \in Transports, fail \in BOOLEAN :
        LET tab == transportIPTable(t)
            a == IF add THEN "-A" ELSE "-D"
            action == IF add THEN "install" ELSE "remove"
        IN  IF tab.err # "nil"
              THEN /\ fwRet' = fwCall("programMangle", vni, add, t, "", tab.err)
                   /\ UNCHANGED <<encryption, cluster, attached, volumeService, pluginClient, network, mtuRet, iptable, trapped>>
              ELSE LET r == ProgramRule(iptable[tab.version][OUTPUT], a, mangleRule(vni), fail)
                   IN  /\ iptable' = [iptable EXCEPT ![tab.version][OUTPUT] = r.chain]
                       /\ fwRet' = IF r.err # "nil"
                                     THEN fwCall("programMangle", vni, add, t,
                                                 "could not " \o action \o " mangle rule", r.err)
                                     ELSE fwCall("programMangle", vni, add, t, "", "nil")
                       /\ UNCHANGED <<encryption, cluster, attached, volumeService, pluginClient, network, mtuRet, trapped>>

programInput(vni, add) ==
    \E t \in Transports, fail \in BOOLEAN :
        LET tab == transportIPTable(t)
            a == IF add THEN "-I" ELSE "-D"
            msg == IF add THEN "add" ELSE "remove"
        IN  IF tab.err # "nil"
              THEN /\ fwRet' = fwCall("programInput", vni, add, t, "", tab.err)
                   /\ UNCHANGED <<encryption, cluster, attached, volumeService, pluginClient, network, mtuRet, iptable, trapped>>
              ELSE LET r == ProgramRule(iptable[tab.version][INPUT], a, inputRule(vni), fail)
                   IN  /\ iptable' = [iptable EXCEPT ![tab.version][INPUT] = r.chain]
                       /\ fwRet' = IF r.err # "nil"
                                     THEN fwCall("programInput", vni, add, t,
                                                 "could not " \o msg \o " input drop rule", r.err)
                                     ELSE fwCall("programInput", vni, add, t, "", "nil")
                       /\ UNCHANGED <<encryption, cluster, attached, volumeService, pluginClient, network, mtuRet, trapped>>

NextFirewall ==
    \/ \E vni \in VNIs, add \in BOOLEAN : programMangle(vni, add)
    \/ \E vni \in VNIs, add \in BOOLEAN : programInput(vni, add)

SpecFirewall == Init /\ [][NextFirewall]_vars

----------------------------------------------------------------------------
(* Trap: the signal handling of the daemon *)

forceQuitCount == 3

SIGINT == 2
SIGTERM == 15

\* Trap starting the cleanup on every signal it counts.
firstInterruptEvery(n) == TRUE

\* interruptCount == 1
firstInterrupt(n) == n = 1

\* The process receives sig: signal.Notify passes it to c without blocking,
\* and drops it when the buffer of c is full.
notify(sig) ==
    /\ exitCode = 0
    /\ received < MaxSignals
    /\ received' = received + 1
    /\ sigc' = IF Len(sigc) < forceQuitCount THEN Append(sigc, sig) ELSE sigc
    /\ UNCHANGED <<encryption, cluster, attached, volumeService, pluginClient, network, mtuRet, iptable, fwRet,
                   interruptCount, cleanups, exitCode>>

\* for sig := range c, with interruptCount < forceQuitCount
countInterrupt ==
    /\ exitCode = 0
    /\ sigc # <<>>
    /\ interruptCount < forceQuitCount
    /\ sigc' = Tail(sigc)
    /\ interruptCount' = interruptCount + 1
    /\ cleanups' = IF firstInterrupt(interruptCount') THEN cleanups + 1 ELSE cleanups
    /\ UNCHANGED <<encryption, cluster, attached, volumeService, pluginClient, network, mtuRet, iptable, fwRet, exitCode, received>>

\* for sig := range c, once interruptCount has reached forceQuitCount
forceQuit ==
    /\ exitCode = 0
    /\ sigc # <<>>
    /\ ~(interruptCount < forceQuitCount)
    /\ exitCode' = 128 + Head(sigc)
    /\ sigc' = Tail(sigc)
    /\ UNCHANGED <<encryption, cluster, attached, volumeService, pluginClient, network, mtuRet, iptable, fwRet,
                   interruptCount, cleanups, received>>

NextTrap ==
    \/ \E sig \in {SIGINT, SIGTERM} : notify(sig)
    \/ countInterrupt
    \/ forceQuit

SpecTrap == Init /\ [][NextTrap]_vars

----------------------------------------------------------------------------
(* The volume service: Create and Remove, as TestServiceCreate uses them *)

\* ds.Register(testutils.NewFakeDriver("d1"), "d1"), and "d2"
registered == {"d1", "d2"}
DriverNames == registered \cup {"notexist"}
VolumeNames == { <<"v", i>> : i \in 1..NumVolumes }

\* The volume a call returns.
volumeOf(name, driver) == [Name |-> name, Driver |-> driver]
noVolume == [Name |-> <<>>, Driver |-> ""]

\* A store that never reports a conflict: Create hands out what it holds.
checkConflictNever(vs, name, driver) == "nil"

\* The store's check of the name against the volumes it holds.
checkConflict(vs, name, driver) ==
    IF name \in DOMAIN vs /\ vs[name] # driver THEN "name conflict" ELSE "nil"

\* The call as volRet keeps it, with the call before it.
volCall(name, volume, driver, v, err) ==
    << [call |-> name, name |-> volume, driver |-> driver, volume |-> v, err |-> err,
        n |-> IF volRet = <<>> THEN 1 ELSE volRet[1].n + 1,
        prev |-> IF volRet = <<>> THEN <<>>
                 ELSE << [volRet[1] EXCEPT !.prev = <<>>] >>] >>

volumeCalls == IF volRet = <<>> THEN 0 ELSE volRet[1].n

\* service.Create(ctx, name, driver)
Create(name, driver) ==
    /\ volumeCalls < MaxVolumeCalls
    /\ IF checkConflict(volumes, name, driver) # "nil"
         THEN /\ volRet' = volCall("Create", name, driver, noVolume,
                                   checkConflict(volumes, name, driver))
              /\ volumes' = volumes
         ELSE IF name \in DOMAIN volumes
         THEN /\ volRet' = volCall("Create", name, driver,
                                   volumeOf(name, volumes[name]), "nil")
              /\ volumes' = volumes
         ELSE IF driver \notin registered
         THEN /\ volRet' = volCall("Create", name, driver, noVolume, "not found")
              /\ volumes' = volumes
         ELSE /\ volRet' = volCall("Create", name, driver, volumeOf(name, driver), "nil")
              /\ volumes' = MapSet(volumes, name, driver)
    /\ UNCHANGED <<encryption, cluster, attached, network, mtuRet, iptable, fwRet, trapped, pluginClient>>

\* service.Remove(ctx, name) of a volume nothing refers to
Remove(name) ==
    /\ volumeCalls < MaxVolumeCalls
    /\ name \in DOMAIN volumes
    /\ volRet' = volCall("Remove", name, "", noVolume, "nil")
    /\ volumes' = MapDelete(volumes, name)
    /\ UNCHANGED <<encryption, cluster, attached, network, mtuRet, iptable, fwRet, trapped, pluginClient>>

NextVolumes ==
    \/ \E name \in VolumeNames, driver \in DriverNames : Create(name, driver)
    \/ \E name \in VolumeNames : Remove(name)

SpecVolumes == Init /\ [][NextVolumes]_vars

----------------------------------------------------------------------------
(* backoff: the delay before the next retry of the plugin client *)

defaultTimeOut == 30

\* for b < maxTimeout && retries > 0 { b *= 2; retries-- }
RECURSIVE double(_, _)
double(b, n) == IF b < defaultTimeOut /\ n > 0 THEN double(b * 2, n - 1) ELSE b

\* backoff without the cap that follows its loop.
backoffUncapped(n) == double(1, n)

\* backoff(retries), in seconds
backoff(n) ==
    LET b == double(1, n)
    IN  IF b > defaultTimeOut THEN defaultTimeOut ELSE b

callBackoff ==
    /\ backoffRet' = << backoff(retries) >>
    /\ UNCHANGED <<encryption, cluster, attached, network, mtuRet, iptable, fwRet, trapped, volumeService,
                   retries>>

InitBackoff ==
    /\ InitDriver /\ InitNetwork /\ InitFirewall /\ InitTrap /\ InitVolumes /\ InitCluster
    /\ InitDetached
    /\ faults = FALSE
    /\ retries \in 0..MaxRetries
    /\ backoffRet = <<>>

NextBackoff == callBackoff

SpecBackoff == InitBackoff /\ [][NextBackoff]_vars

----------------------------------------------------------------------------
(* Two nodes, peers of each other, rotating their keys on the commands of   *)
(* the coordinator.  Each node runs the driver above for its one peer:     *)
(* setupEncryption has returned on both, and every command is one          *)
(* updateKeys(newKey, primary, pruneKey) call, its kernel calls issued one *)
(* at a time on the node's own kernel.                                     *)

Nodes == {"A", "B"}
peer(x) == IF x = "A" THEN "B" ELSE "A"

\* The address a node binds to and advertises, by which its peer knows it.
addr(x) == IF x = "A" THEN <<10, 0, 0, 1>> ELSE <<10, 0, 0, 2>>

\* The i-th key the coordinator has generated.
rotKey(i) == [value |-> 100 + i, tag |-> i]

\* Steady state: rSA0, rSA1, rSA2, fSA1, fSP1.  The primary is the second key
\* generated; the oldest key and the next one follow it, in either order.
SteadyKeys == { << rotKey(2), rotKey(1), rotKey(3) >>, << rotKey(2), rotKey(3), rotKey(1) >> }

\* The n-th rotation command: -rSA(n), +rSA(n+3), +fSA(n+2), -fSA(n+1)
command(n) == [newKey |-> rotKey(n + 3), primary |-> rotKey(n + 2), pruneKey |-> rotKey(n)]

\* The kernel K = [sa, sp] after programSA / programSP / XfrmPolicyUpdate has
\* carried out request q, every call succeeding.
kernelAfter(K, q) ==
    CASE q.kind = "SA" ->
           [K EXCEPT !.sa = IF q.add THEN XfrmStateAdd(@, q.obj) ELSE XfrmStateDel(@, q.obj)]
      [] q.kind = "SP" ->
           [K EXCEPT !.sp = IF q.add THEN XfrmPolicyAdd(@, q.obj) ELSE XfrmPolicyDel(@, q.obj)]
      [] q.kind = "SPUpdate" ->
           [K EXCEPT !.sp = XfrmPolicyUpdate(@, q.obj)]
      [] OTHER -> K

RECURSIVE kernelAfterAll(_, _)
kernelAfterAll(K, qs) ==
    IF qs = <<>> THEN K ELSE kernelAfterAll(kernelAfter(K, Head(qs)), Tail(qs))

\* Node x after setKeys(ks) on a clean kernel and setupEncryption(peer).
joined(x, ks) ==
    LET K == kernelAfterAll([sa |-> {}, sp |-> {}],
                            setupLoop(addr(x), addr(x), addr(peer(x)), ks, 0))
    IN  [keys |-> ks, spi |-> setupIndices(addr(x), addr(peer(x)), ks),
         sa |-> K.sa, sp |-> K.sp,
         script |-> <<>>, busy |-> FALSE, done |-> 0,
         newIdx |-> -1, priIdx |-> -1, delIdx |-> -1]

\* Node x is not more than one command ahead of its peer when it takes its
\* next command.
inStep(x) == cluster[x].done <= cluster[peer(x)].done

\* updateKeys of node x on its next command, up to the call of updateNodeKey
nodeUpdateKeys(x) ==
    /\ ~cluster[x].busy
    /\ cluster[x].done < MaxCommands
    /\ inStep(x)
    /\ LET n == cluster[x]
           c == command(n.done + 1)
           ks == keysAppend(n.keys, c.newKey)
           newIdx == -1 + Len(ks)
           priIdx == keyIdx(ks, c.primary)
           delIdx == keyIdx(ks, c.pruneKey)
       IN  /\ ~invalidIndices(c.newKey, c.primary, c.pruneKey, newIdx, priIdx, delIdx)
           /\ ~primaryAndPruned(priIdx, delIdx)
           /\ cluster' = [cluster EXCEPT ![x] =
                  [n EXCEPT !.keys = ks, !.busy = TRUE,
                            !.newIdx = newIdx, !.priIdx = priIdx, !.delIdx = delIdx,
                            !.script = updateNodeKeyCalls(addr(x), addr(x), addr(peer(x)),
                                                          n.spi, ks, newIdx, priIdx, delIdx)]]
    /\ UNCHANGED <<encryption, attached, network, mtuRet, iptable, fwRet, trapped, volumeService,
                   pluginClient>>

\* The next kernel request of node x's updateNodeKey
nodeXfrm(x) ==
    /\ cluster[x].busy
    /\ cluster[x].script # <<>>
    /\ Head(cluster[x].script).kind # "panic"
    /\ LET n == cluster[x]
           K == kernelAfter([sa |-> n.sa, sp |-> n.sp], Head(n.script))
       IN  cluster' = [cluster EXCEPT ![x] =
              [n EXCEPT !.sa = K.sa, !.sp = K.sp, !.script = Tail(n.script)]]
    /\ UNCHANGED <<encryption, attached, network, mtuRet, iptable, fwRet, trapped, volumeService,
                   pluginClient>>

\* The swap and prune of updateNodeKey and of updateKeys, and the return
nodeUpdateKeysReturn(x) ==
    /\ cluster[x].busy
    /\ cluster[x].script = <<>>
    /\ LET n == cluster[x]
           spis == nodeAppend(addr(x), addr(peer(x)), n.spi, n.keys, n.newIdx)
       IN  /\ ~swapPrunePanics(spis, n.priIdx, n.delIdx)
           /\ ~swapPrunePanics(n.keys, n.priIdx, n.delIdx)
           /\ cluster' = [cluster EXCEPT ![x] =
                  [n EXCEPT !.spi = swapPrune(spis, n.priIdx, n.delIdx),
                            !.keys = swapPrune(n.keys, n.priIdx, n.delIdx),
                            !.busy = FALSE, !.done = @ + 1,
                            !.newIdx = -1, !.priIdx = -1, !.delIdx = -1]]
    /\ UNCHANGED <<encryption, attached, network, mtuRet, iptable, fwRet, trapped, volumeService,
                   pluginClient>>

\* Both nodes have started from the same key list and have set each other up.
InitPair ==
    /\ InitDriver /\ InitNetwork /\ InitFirewall /\ InitTrap /\ InitVolumes /\ InitPlugin
    /\ InitDetached
    /\ faults = FALSE
    /\ \E ks \in SteadyKeys : cluster = [x \in Nodes |-> joined(x, ks)]

NextPair ==
    \/ \E x \in Nodes : nodeUpdateKeys(x)
    \/ \E x \in Nodes : nodeXfrm(x)
    \/ \E x \in Nodes : nodeUpdateKeysReturn(x)

SpecPair == InitPair /\ [][NextPair]_vars

----------------------------------------------------------------------------
(* CopyStreams: the goroutines that copy an attach's streams, and its result *)

\* make(chan error, 1): the capacity of errs and of groupErr
buffered == 1

\* ctx.Err() of a cancelled context
ctxErr == "context canceled"

\* The error a copy goroutine returns when its copy failed
wrapped(s) == "error attaching " \o s

\* What the copy goroutine of s reads from: the client's stdin, or the
\* container's pipe of an output stream.
sourceOf(s) == IF s = "Stdin" THEN "Stdin" ELSE pipeOf(s)

\* Every pipe and client stream that the cancelled branch closes.
allPipes == { pipeOf(s) : s \in { t \in Streams : cfg[t] } }
                \cup (IF cfg.Stdin THEN {"Stdin"} ELSE {})

\* What the deferred functions of the copy goroutine of s close.
deferredCloses(s) ==
    IF s = "Stdin"
    THEN (IF cfg.CloseStdin /\ ~cfg.TTY
          THEN {"CStdin"}
          ELSE { pipeOf(t) : t \in { u \in {"Stdout", "Stderr"} : cfg[u] } })
         \cup (IF cfg.TTY THEN {"Stdin"} ELSE {})
    ELSE (IF cfg.Stdin THEN {"Stdin"} ELSE {}) \cup {pipeOf(s)}

\* group.Wait() can return: no copy goroutine is running.
allDone == \A s \in Streams : copier[s] # "copying"

resultContext(err, cerr) == cerr

\* The value sent after a cancellation: the group's error if there is one,
\* otherwise the context's.
result(err, cerr) == IF err # "nil" THEN err ELSE cerr

\* The context is cancelled.
cancel ==
    /\ ~ctxDone
    /\ ctxDone' = TRUE
    /\ UNCHANGED <<cfg, copier, closed, group, groupErr, errs, selector, waiter, val>>
    /\ UNCHANGED <<encryption, network, mtuRet, iptable, fwRet, trapped, volumeService,
                   pluginClient, cluster>>

\* The copy of stream s returns with err (nil, also for io.ErrClosedPipe, or a
\* wrapped error): the goroutine's deferred closes run, and the group keeps
\* the first error that is not nil.
copyReturns(s, err) ==
    /\ copier[s] = "copying"
    /\ copier' = [copier EXCEPT ![s] = "done"]
    /\ closed' = closed \cup deferredCloses(s)
    /\ group' = IF group = "nil" THEN err ELSE group
    /\ UNCHANGED <<cfg, ctxDone, groupErr, errs, selector, waiter, val>>
    /\ UNCHANGED <<encryption, network, mtuRet, iptable, fwRet, trapped, volumeService,
                   pluginClient, cluster>>

\* A copy whose source has been closed returns.
copyUnblocked ==
    \E s \in Streams : \E err \in {"nil", wrapped(s)} :
        sourceOf(s) \in closed /\ copyReturns(s, err)

\* A copy returns because its source has ended or has failed.
copyEnds ==
    \E s \in Streams : \E err \in {"nil", wrapped(s)} :
        sourceOf(s) \notin closed /\ copyReturns(s, err)

\* groupErr <- group.Wait()
waitGroup ==
    /\ waiter = "wait"
    /\ allDone
    /\ Len(groupErr) < buffered
    /\ groupErr' = Append(groupErr, group)
    /\ waiter' = "end"
    /\ UNCHANGED <<cfg, copier, closed, ctxDone, group, errs, selector, val>>
    /\ UNCHANGED <<encryption, network, mtuRet, iptable, fwRet, trapped, volumeService,
                   pluginClient, cluster>>

\* case <-ctx.Done(): every pipe, and the client's stdin, is closed.
selectDone ==
    /\ selector = "select"
    /\ ctxDone
    /\ closed' = closed \cup allPipes
    /\ selector' = "wait"
    /\ UNCHANGED <<cfg, copier, ctxDone, group, groupErr, errs, waiter, val>>
    /\ UNCHANGED <<encryption, network, mtuRet, iptable, fwRet, trapped, volumeService,
                   pluginClient, cluster>>

\* The group.Wait() of the cancelled branch returns.
waitCancelled ==
    /\ selector = "wait"
    /\ allDone
    /\ val' = result(group, ctxErr)
    /\ selector' = "send"
    /\ UNCHANGED <<cfg, copier, closed, ctxDone, group, groupErr, errs, waiter>>
    /\ UNCHANGED <<encryption, network, mtuRet, iptable, fwRet, trapped, volumeService,
                   pluginClient, cluster>>

\* case err := <-groupErr
selectGroupErr ==
    /\ selector = "select"
    /\ groupErr # <<>>
    /\ val' = Head(groupErr)
    /\ groupErr' = Tail(groupErr)
    /\ selector' = "forward"
    /\ UNCHANGED <<cfg, copier, closed, ctxDone, group, errs, waiter>>
    /\ UNCHANGED <<encryption, network, mtuRet, iptable, fwRet, trapped, volumeService,
                   pluginClient, cluster>>

\* errs <- err, errs <- ctx.Err(): the send waits while the channel is full.
send ==
    /\ selector \in {"send", "forward"}
    /\ Len(errs) < buffered
    /\ errs' = Append(errs, val)
    /\ selector' = "end"
    /\ UNCHANGED <<cfg, copier, closed, ctxDone, group, groupErr, waiter, val>>
    /\ UNCHANGED <<encryption, network, mtuRet, iptable, fwRet, trapped, volumeService,
                   pluginClient, cluster>>

\* CopyStreams has been called with any configuration.
InitStreams ==
    /\ InitDriver /\ InitNetwork /\ InitFirewall /\ InitTrap /\ InitVolumes /\ InitPlugin
    /\ InitCluster
    /\ faults = FALSE
    /\ \E c \in Configs : CopyStreams(c)

\* The steps of the goroutines that CopyStreams starts for its result.
selecting == waitGroup \/ selectDone \/ selectGroupErr \/ waitCancelled \/ send

NextStreams == cancel \/ copyEnds \/ copyUnblocked \/ selecting

\* Goroutines that can run do run, and a copy returns once its source is closed.
SpecStreams ==
    InitStreams /\ [][NextStreams]_vars /\ WF_vars(selecting) /\ WF_vars(copyUnblocked)

----------------------------------------------------------------------------
(* What an observer sees *)

\* No call is in progress (and the daemon has not died).
idle == pc = "idle"

\* The driver's Security Associations towards and from peer r.
fwdSAs(r) == { sa \in xfrmStates : sa.Reqid = mark /\ sa.Src = bindAddress /\ sa.Dst = r }
revSAs(r) == { sa \in xfrmStates : sa.Reqid = mark /\ sa.Src = r /\ sa.Dst = bindAddress }

\* The driver's outbound policies for peer r.
outSPs(r) == { sp \in xfrmPolicies : sp.Mark = mark /\ sp.Src = bindAddress /\ sp.Dst = r }

\* The SPI pair of key k for peer r.
pairOf(r, k) == spiOf(advertiseAddress, r, k.tag)

\* A call of the given name has just returned rc: this step is its return.
returns(name, rc) == pc # "idle" /\ pc' = "idle" /\ op'.name = name /\ op'.rc = rc

\* A call of the given name is made and returns rc at once, in this step.
rejects(name, rc) == pc = "idle" /\ pc' = "idle" /\ calls' = calls + 1
                     /\ op'.name = name /\ op'.rc = rc

----------------------------------------------------------------------------
(* C1.  Whenever no call is in progress, every peer entry of secMap has as  *)
(* many SPI pairs as the key list has keys, and its i-th pair is           *)
(* (buildSPI(advertise, remote, keys[i].tag),                              *)
(*  buildSPI(remote, advertise, keys[i].tag)).  Stated for the entries     *)
(* with a reference count of at least 1, which leaves aside the entries    *)
(* C2 is about.                                                            *)
C1_SpisMirrorKeys ==
    idle => \A r \in DOMAIN secMap :
                secMap[r].count >= 1 =>
                    /\ Len(secMap[r].spi) = Len(keys)
                    /\ \A i \in 1..Len(keys) : secMap[r].spi[i] = pairOf(r, keys[i])

(* C2.  Every entry of secMap has a reference count of at least 1.         *)
C2_RefcountPositive ==
    \A r \in DOMAIN secMap : secMap[r].count >= 1

(* C3.  A removeEncryption(p) that directly follows a successful           *)
(* setupEncryption(p): when that setup found no entry for p, p is not in   *)
(* secMap afterwards; when that setup brought the count to 2, the entry    *)
(* stays with count 1 and its SPI pairs, and no kernel request is made.    *)
(* The rest of removeEncryption leaves secMap alone.                       *)
C3_SetupThenRemove ==
    [][ /\ ( /\ idle /\ op.name = "setupEncryption" /\ op.rc = "nil"
             /\ calls' = calls + 1
             /\ op'.name = "removeEncryption" /\ op'.remote = op.remote )
           => LET p == op.remote
              IN  /\ op.fresh => p \notin DOMAIN secMap'
                  /\ secMap[p].count = 2 =>
                        /\ p \in DOMAIN secMap'
                        /\ secMap'[p] = [spi |-> secMap[p].spi, count |-> 1]
                        /\ script' = <<>>
        /\ (pc = "xfrm" /\ op.name = "removeEncryption") => secMap' = secMap
      ]_vars

\* removeEncryption has returned, leaving the entry it found with count 1.
C3_Witness ==
    /\ idle /\ op.name = "removeEncryption" /\ op.rc = "nil"
    /\ op.remote \in DOMAIN secMap
    /\ secMap[op.remote].count = 1
    /\ secMap[op.remote].spi # <<>>
    /\ fwdSAs(op.remote) # {}

----------------------------------------------------------------------------
\* updateKeys is promoting the key at index priIdx > 0, or has just done so.
promoting == op.name = "updateKeys" /\ op.priIdx > 0 /\ op.rc \in {"running", "nil"}

isFwd(q, r) == q.kind = "SA" /\ q.obj.Src = bindAddress /\ q.obj.Dst = r
pending(r, add) == \E i \in 1..Len(script) : isFwd(script[i], r) /\ script[i].add = add

\* Peer r is between "+fSA2" and "-fSA1" of its updateNodeKey.
inWindow(r) == pc = "xfrm" /\ op.cur = r /\ ~pending(r, TRUE) /\ pending(r, FALSE)

----------------------------------------------------------------------------
\* The kernel calls made so far on the encrypt path of peer r.
RECURSIVE fwdCalls(_, _)
fwdCalls(log, r) ==
    IF log = <<>> THEN <<>>
    ELSE (IF Head(log).obj.Src = bindAddress /\ Head(log).obj.Dst = r
            THEN << Head(log).call >> ELSE <<>>) \o fwdCalls(Tail(log), r)

isPrefix(a, b) == Len(a) <= Len(b) /\ a = SubSeq(b, 1, Len(a))

\* +fSA2, +fSP2/-fSP1, -fSA1
pivotOrder == << "XfrmStateAdd", "XfrmPolicyUpdate", "XfrmStateDel" >>

\* The outbound policy of r exists and the forward SA its template names exists.
policyLive(r) ==
    /\ outSPs(r) # {}
    /\ \A sp \in outSPs(r) : \E sa \in fwdSAs(r) : sa.Spi = sp.Tmpl

(* C5.  While updateKeys promotes a key with every kernel call succeeding, *)
(* for every peer (with a reference count of at least 1) the kernel calls  *)
(* made on its encrypt path are, in this order, the add of a forward SA,   *)
(* the update of the outbound policy and the removal of a forward SA (the  *)
(* policy is never deleted), and at every point the outbound policy exists *)
(* and the forward SA its template references exists.                      *)
C5_PivotOrder ==
    promoting /\ pc # "idle" =>
        \A r \in DOMAIN secMap :
            secMap[r].count >= 1 =>
                /\ isPrefix(fwdCalls(klog, r), pivotOrder)
                /\ policyLive(r)

----------------------------------------------------------------------------
(* C6.  An updateKeys call that returns InvalidParameterError leaves the   *)
(* key list and every entry of secMap as they were when it was called.     *)
C6_RejectedLeavesState ==
    [][ rejects("updateKeys", "InvalidParameterError")
            => keys' = keys /\ secMap' = secMap ]_vars

\* The tags of a key list.
tagsOf(ks) == { ks[i].tag : i \in 1..Len(ks) }

\* No two keys of the list carry the same tag.
noDupTags(ks) == \A i, j \in 1..Len(ks) : ks[i].tag = ks[j].tag => i = j

\* This step is the call updateKeys(n, p, d).
callsUpdateKeys(n, p, d) ==
    /\ calls' = calls + 1
    /\ op'.name = "updateKeys"
    /\ op'.newKey = n /\ op'.primary = p /\ op'.pruneKey = d

(* C7.  updateKeys(primary=K, pruneKey=K), and updateKeys with a primary   *)
(* or a prune key whose tag is not in the key list (the new key included), *)
(* returns InvalidParameterError and makes no kernel call: the SAs and SPs *)
(* are as before and the call has nothing left to do.                      *)
C7_RejectedNoKernelCall ==
    [][ \A n \in Keys, p \in Keys, d \in Keys :
          LET updated == tagsOf(keys) \cup (IF n # nil THEN {n.tag} ELSE {})
          IN  /\ callsUpdateKeys(n, p, d)
              /\ \/ p # nil /\ p = d
                 \/ p # nil /\ p.tag \notin updated
                 \/ d # nil /\ d.tag \notin updated
              => /\ op'.rc = "InvalidParameterError"
                 /\ pc' = "idle" /\ script' = <<>> /\ klog' = <<>>
                 /\ xfrmStates' = xfrmStates
                 /\ xfrmPolicies' = xfrmPolicies
      ]_vars

\* updateKeys(primary=K, pruneKey=K) was rejected, K in the list, peers set up.
C7_Witness ==
    /\ idle /\ op.name = "updateKeys" /\ op.rc = "InvalidParameterError"
    /\ op.primary # nil /\ op.primary = op.pruneKey
    /\ op.primary.tag \in tagsOf(keys) /\ noDupTags(keys)
    /\ \A r \in Remotes : r \in DOMAIN secMap /\ secMap[r].count >= 1 /\ fwdSAs(r) # {}

----------------------------------------------------------------------------
\* This step is the successful return of updateKeys(n, p, d).
updateKeysDone(n, p, d) ==
    /\ returns("updateKeys", "nil")
    /\ op.newKey = n /\ op.primary = p /\ op.pruneKey = d

\* The peers updateKeys found in secMap.
peers0 == DOMAIN op.secMap0

\* s1 is s0 with positions 0 and i exchanged.
exchanged(s0, s1, i) ==
    /\ Len(s1) = Len(s0)
    /\ InRange(s0, i)
    /\ At(s1, 0) = At(s0, i)
    /\ At(s1, i) = At(s0, 0)
    /\ \A j \in 0..(Len(s0) - 1) : j \notin {0, i} => At(s1, j) = At(s0, j)

(* C8.  When updateKeys(primary=K) returns, K having been at index i > 0   *)
(* (the index updateKeys resolves K to, the last one holding K's tag): K   *)
(* is at index 0 of the key list and K's SPI pair at index 0 of every      *)
(* peer's list, the previous primary and its SPI pair are at index i, and  *)
(* every other position of the key list and of the peers' lists is as it   *)
(* was.                                                                    *)
C8_PromoteSwaps ==
    [][ \A K \in KeyPool :
          updateKeysDone(nil, K, nil) /\ keyIdx(op.keys0, K) > 0
            => LET i == keyIdx(op.keys0, K)
               IN  /\ exchanged(op.keys0, keys', i)
                   /\ At(keys', 0).tag = K.tag
                   /\ \A r \in peers0 :
                        /\ r \in DOMAIN secMap'
                        /\ exchanged(op.secMap0[r].spi, secMap'[r].spi, i)
                        /\ At(secMap'[r].spi, 0) = pairOf(r, K)
      ]_vars

\* updateKeys(primary=K) has returned: three keys, K came from index 2, peers set up.
C8_Witness ==
    /\ idle /\ op.name = "updateKeys" /\ op.rc = "nil"
    /\ op.newKey = nil /\ op.pruneKey = nil /\ op.primary # nil
    /\ op.priIdx = 2 /\ Len(keys) = 3 /\ noDupTags(keys)
    /\ keys[1] = op.primary
    /\ \E r \in DOMAIN secMap : secMap[r].count >= 1 /\ Len(secMap[r].spi) = 3

----------------------------------------------------------------------------
\* The driver's SAs of peer r that carry the SPIs of key k.
fwdSAof(S, r, k) == { sa \in S : sa.Reqid = mark /\ sa.Src = bindAddress /\ sa.Dst = r
                                  /\ sa.Spi = pairOf(r, k).forward }
revSAof(S, r, k) == { sa \in S : sa.Reqid = mark /\ sa.Src = r /\ sa.Dst = bindAddress
                                  /\ sa.Spi = pairOf(r, k).reverse }

(* C9.  When updateKeys(newKey=K), with no primary and no prune key,       *)
(* returns: K is the last key of the list, at an index other than 0, the   *)
(* keys before it are as they were; for every peer the SPI list is one     *)
(* longer, the kernel holds a reverse SA for K and holds no forward SA for *)
(* K.                                                                      *)
C9_AddAppends ==
    [][ \A K \in KeyPool :
          updateKeysDone(K, nil, nil)
            => /\ keys' = Append(op.keys0, K)
               /\ Len(keys') - 1 # 0
               /\ \A r \in peers0 :
                    /\ r \in DOMAIN secMap'
                    /\ Len(secMap'[r].spi) = Len(op.secMap0[r].spi) + 1
                    /\ revSAof(xfrmStates', r, K) # {}
                    /\ fwdSAof(xfrmStates', r, K) = {}
      ]_vars

\* s without its elements equal to x, in order.
without(s, x) == SelectSeq(s, LAMBDA y : y # x)

RECURSIVE withoutTag(_, _)
withoutTag(ks, t) ==
    IF ks = <<>> THEN <<>>
    ELSE (IF Head(ks).tag = t THEN <<>> ELSE << Head(ks) >>) \o withoutTag(Tail(ks), t)

(* C10.  When updateKeys(pruneKey=K), with no new and no primary key,      *)
(* returns, K having been at an index > 0: for every peer the kernel holds *)
(* no reverse SA for K and the SPI list is the one before without K's      *)
(* pair, in the same order; the key list is the one before without K, in   *)
(* the same order.                                                         *)
C10_PruneRemoves ==
    [][ \A K \in KeyPool :
          updateKeysDone(nil, nil, K) /\ keyIdx(op.keys0, K) > 0
            => /\ keys' = withoutTag(op.keys0, K.tag)
               /\ \A r \in peers0 :
                    /\ r \in DOMAIN secMap'
                    /\ revSAof(xfrmStates', r, K) = {}
                    /\ secMap'[r].spi = without(op.secMap0[r].spi, pairOf(r, K))
      ]_vars
----------------------------------------------------------------------------
(* C11.  Whenever no call is in progress (no kernel call having failed),   *)
(* the kernel holds, for every peer of secMap (with a reference count of   *)
(* at least 1) and every key of the key list, the reverse SA of that peer  *)
(* and key; in particular the previous primary keeps its reverse SA after  *)
(* a promote.                                                              *)
C11_EveryKeyDecrypts ==
    idle => \A r \in DOMAIN secMap :
                secMap[r].count >= 1 =>
                    \A i \in 1..Len(keys) : revSAof(xfrmStates, r, keys[i]) # {}
----------------------------------------------------------------------------
\* This step is the call setupEncryption(r).
callsSetup(r) ==
    calls' = calls + 1 /\ op'.name = "setupEncryption" /\ op'.remote = r

\* Request q asks to add the SA of key k towards (fwd) or from peer r.
addsSA(q, r, k, fwd) ==
    /\ q.kind = "SA" /\ q.add
    /\ q.obj.Src = (IF fwd THEN bindAddress ELSE r)
    /\ q.obj.Dst = (IF fwd THEN r ELSE bindAddress)
    /\ q.obj.Spi = (IF fwd THEN pairOf(r, k).forward ELSE pairOf(r, k).reverse)
    /\ q.obj.Aead = << k.value, q.obj.Spi >>

\* Request q asks to add the outbound policy of peer r with key k's forward SPI.
addsSP(q, r, k) ==
    /\ q.kind = "SP" /\ q.add
    /\ q.obj.Src = bindAddress /\ q.obj.Dst = r /\ q.obj.Mark = mark
    /\ q.obj.Tmpl = pairOf(r, k).forward

(* C12.  setupEncryption(r) on a key list of n >= 1 keys requests, in the  *)
(* order of the list: for the key at index 0 the add of its reverse SA, of *)
(* its forward SA and of the outbound policy, and for every other key the  *)
(* add of its reverse SA only.  When it returns (no kernel call having     *)
(* failed) the kernel holds for r n reverse SAs, one forward SA, that of   *)
(* keys[0], and one outbound policy, whose template SPI is keys[0]'s       *)
(* forward SPI.                                                            *)
C12_SetupPrograms ==
    [][ \A r \in Remotes :
          /\ callsSetup(r) /\ Len(keys) >= 1
                => /\ Len(script') = Len(keys) + 2
                   /\ addsSA(script'[1], r, keys[1], FALSE)
                   /\ addsSA(script'[2], r, keys[1], TRUE)
                   /\ addsSP(script'[3], r, keys[1])
                   /\ \A i \in 2..Len(keys) : addsSA(script'[i + 2], r, keys[i], FALSE)
          /\ returns("setupEncryption", "nil") /\ op.remote = r
                => /\ Cardinality(revSAs(r)') = Len(keys)
                   /\ fwdSAs(r)' = fwdSAof(xfrmStates', r, keys[1])
                   /\ Cardinality(fwdSAs(r)') = 1
                   /\ Cardinality(outSPs(r)') = 1
                   /\ \A sp \in outSPs(r)' : sp.Tmpl = pairOf(r, keys[1]).forward
      ]_vars
----------------------------------------------------------------------------
(* C13.  setupEncryption called with an empty key list returns an error    *)
(* (ForbiddenError), requests no kernel call, and leaves secMap and the    *)
(* kernel's SAs and SPs as they were.                                      *)
C13_SetupWithoutKeys ==
    [][ \A r \in Remotes :
          callsSetup(r) /\ Len(keys) = 0
            => /\ op'.rc = "ForbiddenError"
               /\ pc' = "idle" /\ script' = <<>> /\ klog' = <<>>
               /\ secMap' = secMap
               /\ xfrmStates' = xfrmStates
               /\ xfrmPolicies' = xfrmPolicies
      ]_vars

\* setupEncryption has been refused for a peer that has no entry.
C13_Witness ==
    /\ idle /\ op.name = "setupEncryption" /\ op.rc = "ForbiddenError"
    /\ keys = <<>>
    /\ op.remote \notin DOMAIN secMap
----------------------------------------------------------------------------
\* The driver's SAs and SPs of peer r in kernel tables S and P.
kernelOf(S, P, r) ==
    [sa |-> { x \in S : x.Reqid = mark /\ (x.Src = r \/ x.Dst = r) },
     sp |-> { x \in P : x.Mark = mark /\ (x.Src = r \/ x.Dst = r) }]

(* C14.  A setupEncryption(r) that directly follows a successful           *)
(* setupEncryption(r) (no kernel call having failed): no step of it        *)
(* changes the kernel's SAs and SPs of r, it issues no kernel add, and it  *)
(* returns nil with the reference count of r one higher: 2 when the first  *)
(* call found no entry for r.                                              *)
C14_SetupTwice ==
    [][ /\ (op'.name = "setupEncryption" /\ op'.again)
              => /\ kernelOf(xfrmStates', xfrmPolicies', op'.remote)
                        = kernelOf(xfrmStates, xfrmPolicies, op'.remote)
                 /\ klog' = <<>>
                 /\ op'.rc \in {"running", "nil"}
        /\ \A r \in Remotes :
             callsSetup(r) /\ op'.again /\ op.fresh => secMap[r].count = 1
        /\ (returns("setupEncryption", "nil") /\ op.again)
              => /\ secMap'[op.remote].count = op.secMap0[op.remote].count + 1
                 /\ secMap'[op.remote].spi = op.secMap0[op.remote].spi
      ]_vars

\* The second setupEncryption has returned: count 2, SAs for two keys.
C14_Witness ==
    /\ idle /\ op.name = "setupEncryption" /\ op.again /\ op.rc = "nil"
    /\ secMap[op.remote].count = 2
    /\ Len(keys) = 2 /\ noDupTags(keys)
    /\ Cardinality(revSAs(op.remote)) = 2
    /\ Cardinality(fwdSAs(op.remote)) = 1
----------------------------------------------------------------------------
\* A call is inside its critical section.
inCall == pc \in {"xfrm", "loop"}

(* C15.  The calls of setKeys, setupEncryption, removeEncryption and       *)
(* updateKeys, made at any time by any caller, never overlap: a call gets  *)
(* past Lock only when no call is in progress, the lock is held exactly    *)
(* while a call is in progress, and the key list, secMap and the kernel    *)
(* tables change only in steps of the call that holds the lock.  Every run *)
(* is therefore a sequence of whole calls, in the order they took the      *)
(* lock.                                                                   *)
C15_CallsSerialized ==
    [][ /\ calls' = calls + 1 => ~inCall
        /\ (encrMu' = 1) <=> inCall'
        /\ (keys' # keys \/ secMap' # secMap \/ xfrmStates' # xfrmStates
               \/ xfrmPolicies' # xfrmPolicies)
              => \/ inCall /\ encrMu = 1 /\ calls' = calls /\ op'.name = op.name
                 \/ ~inCall /\ calls' = calls + 1
      ]_vars

\* updateKeys holds the lock with one peer updated and another still to do.
C15_Witness ==
    /\ pc = "loop" /\ encrMu = 1
    /\ op.todo # {}
    /\ secMap # op.secMap0
    /\ calls < MaxCalls
----------------------------------------------------------------------------
\* The running call has made a kernel call of this name that failed.
failed(callName) == \E i \in 1..Len(klog) : klog[i].call = callName /\ ~klog[i].ok

(* C16.  When the XfrmPolicyUpdate of a promote fails for a peer,          *)
(* updateKeys returns an error to its caller.                              *)
C16_PivotFailureReported ==
    [][ \A rc \in {"nil", "InvalidParameterError"} :
          returns("updateKeys", rc) /\ failed("XfrmPolicyUpdate") => rc # "nil"
      ]_vars
----------------------------------------------------------------------------
\* removeEncryption(r) is called in this step.
callsRemove(r) == calls' = calls + 1 /\ op'.name = "removeEncryption" /\ op'.remote = r

\* The running call is a call of name at its kernel requests.
programming(name) == op.name = name /\ pc = "xfrm"

(* C17.  Failed kernel calls (the existence queries, the adds and the      *)
(* deletes) are never escalated.  With at least one key, setupEncryption   *)
(* is not rejected, makes every request of its script whatever the         *)
(* outcome of the earlier ones, returns nil and stores for the peer the    *)
(* SPI pair of every key and a reference count one higher.                 *)
(* removeEncryption decrements the count, or deletes the entry when the    *)
(* count was 1, makes every request of its script and returns nil.         *)
C17_FailuresNotEscalated ==
    [][ /\ \A r \in Remotes :
             callsSetup(r) /\ Len(keys) >= 1 => op'.rc = "running" /\ pc' = "xfrm"
        /\ programming("setupEncryption") =>
             \/ pc' = "xfrm" /\ op' = op /\ script # <<>> /\ script' = Tail(script)
                /\ secMap' = secMap
             \/ /\ script = <<>>
                /\ returns("setupEncryption", "nil")
                /\ secMap' = MapSet(secMap, op.remote,
                       [spi |-> [i \in 1..Len(keys) |-> pairOf(op.remote, keys[i])],
                        count |-> Node(op.secMap0, op.remote).count + 1])
        /\ \A r \in Remotes :
             callsRemove(r) =>
                /\ op'.rc = "running" /\ pc' = "xfrm"
                /\ secMap' = IF Node(secMap, r).count = 1
                               THEN MapDelete(secMap, r)
                               ELSE MapSet(secMap, r,
                                      [spi |-> Node(secMap, r).spi,
                                       count |-> Node(secMap, r).count - 1])
        /\ programming("removeEncryption") =>
             /\ secMap' = secMap
             /\ \/ pc' = "xfrm" /\ op' = op /\ script # <<>> /\ script' = Tail(script)
                \/ script = <<>> /\ returns("removeEncryption", "nil")
      ]_vars

\* setupEncryption has returned nil for a new peer with two keys, and the
\* kernel holds nothing for the peer: every add failed.
C17_Witness ==
    /\ idle /\ faults
    /\ op.name = "setupEncryption" /\ op.rc = "nil" /\ op.fresh
    /\ Len(keys) = 2
    /\ secMap[op.remote].count = 1
    /\ Len(secMap[op.remote].spi) = 2
    /\ revSAs(op.remote) = {} /\ fwdSAs(op.remote) = {} /\ outSPs(op.remote) = {}

\* removeEncryption has returned nil and deleted the entry of a peer, and
\* the kernel still holds the peer's SAs and policy: every delete failed.
C17_RemoveFailed ==
    /\ idle /\ faults
    /\ op.name = "removeEncryption" /\ op.rc = "nil"
    /\ op.remote \notin DOMAIN secMap
    /\ revSAs(op.remote) # {} /\ fwdSAs(op.remote) # {} /\ outSPs(op.remote) # {}
----------------------------------------------------------------------------
(* C18.  The key list never holds two keys of the same tag: setKeys is     *)
(* given keys of distinct tags, and no updateKeys call, accepted or        *)
(* rejected, takes a list of distinct tags to one with a tag twice.        *)
C18_NoDuplicateTags ==
    [][ op'.name = "updateKeys" /\ noDupTags(keys) => noDupTags(keys') ]_vars
----------------------------------------------------------------------------
\* The link MTU of the network: the configured one, the default when it is 0.
linkMTU == IF network.mtu = 0 THEN defaultMTU ELSE network.mtu

\* What maxMTU returns for the network without encryption.
plainMTU == linkMTU - vxlanEncap

(* C19.  For every link MTU, maxMTU returns the link MTU minus the overlay *)
(* overhead when the network is not encrypted.  When it is encrypted the   *)
(* result is a multiple of 4, greater than plain - 30 and at most          *)
(* plain - 26: plain - 26 rounded down to a multiple of 4.                 *)
C19_MaxMTU ==
    \A i \in 1..Len(mtuRet) :
        IF network.secure
          THEN /\ mtuRet[i] % 4 = 0
               /\ mtuRet[i] > plainMTU - 30
               /\ mtuRet[i] <= plainMTU - 26
          ELSE mtuRet[i] = plainMTU
----------------------------------------------------------------------------
\* The objects of the kernel that carry the driver's mark, and the others.
markedSPs(P) == { sp \in P : sp.Mark = mark }
markedSAs(S) == { sa \in S : sa.Reqid = mark }

\* The objects the requests of kind in the script q are for.
targets(q, kind) == { q[i].obj : i \in { j \in 1..Len(q) : q[j].kind = kind } }

\* The running call has issued callName on obj, and the call succeeded.
done(callName, obj) ==
    \E i \in 1..Len(klog) : klog[i].call = callName /\ klog[i].obj = obj /\ klog[i].ok

\* The list call callName of the running call succeeded.
listed(log, callName) == \E i \in 1..Len(log) : log[i].call = callName /\ log[i].ok

(* C20.  The cleanup of setKeys.  It requests the deletion of every policy *)
(* carrying the driver's mark and of every SA whose Reqid is the mark,     *)
(* once each, and of nothing else; a list call that fails leaves its own   *)
(* kind of object alone and does not keep the other kind from being        *)
(* deleted.  Every request of the script is made whatever the outcome of   *)
(* the earlier ones, and no step touches an object without the mark or     *)
(* adds one.  setKeys then returns nil, and a marked object is still in    *)
(* the kernel only if its list call or its own deletion failed: with no    *)
(* failure none is left.                                                   *)
C20_ClearEncryptionStates ==
    [][ /\ (calls' = calls + 1 /\ op'.name = "setKeys") =>
             /\ op'.rc = "running" /\ pc' = "xfrm"
             /\ Len(script') = Cardinality(targets(script', "SPDel"))
                                + Cardinality(targets(script', "SADel"))
             /\ targets(script', "SPDel") =
                  IF listed(klog', "XfrmPolicyList") THEN markedSPs(xfrmPolicies) ELSE {}
             /\ targets(script', "SADel") =
                  IF listed(klog', "XfrmStateList") THEN markedSAs(xfrmStates) ELSE {}
             /\ xfrmStates' = xfrmStates /\ xfrmPolicies' = xfrmPolicies
        /\ programming("setKeys") =>
             /\ xfrmPolicies' \subseteq xfrmPolicies
             /\ xfrmStates' \subseteq xfrmStates
             /\ xfrmPolicies' \ markedSPs(xfrmPolicies') = xfrmPolicies \ markedSPs(xfrmPolicies)
             /\ xfrmStates' \ markedSAs(xfrmStates') = xfrmStates \ markedSAs(xfrmStates)
             /\ \/ pc' = "xfrm" /\ op' = op /\ script # <<>> /\ script' = Tail(script)
                \/ /\ script = <<>>
                   /\ returns("setKeys", "nil")
                   /\ \A sp \in markedSPs(xfrmPolicies) :
                         failed("XfrmPolicyList") \/ ~done("XfrmPolicyDel", sp)
                   /\ \A sa \in markedSAs(xfrmStates) :
                         failed("XfrmStateList") \/ ~done("XfrmStateDel", sa)
                   /\ (\A i \in 1..Len(klog) : klog[i].ok) =>
                         markedSPs(xfrmPolicies') = {} /\ markedSAs(xfrmStates') = {}
      ]_vars

\* setKeys has returned nil after a cleanup in which a list call or a
\* deletion failed: objects of the driver are left, the others are intact.
C20_Witness ==
    /\ idle /\ faults
    /\ op.name = "setKeys" /\ op.rc = "nil"
    /\ markedSPs(xfrmPolicies) = {}
    /\ Cardinality(markedSAs(xfrmStates)) >= 2
    /\ otherSA \in xfrmStates /\ otherSP \in xfrmPolicies
----------------------------------------------------------------------------
\* The last firewall call, and whether it has just been made.
fwLast == fwRet[1]
fwCalled(name) ==
    /\ fwRet' # <<>> /\ fwRet'[1].name = name
    /\ (fwRet' # fwRet \/ iptable' # iptable)

\* The chains other than chain c of version v are as before.
otherChainsKept(v, c) ==
    \A w \in Versions : \A x \in {OUTPUT, INPUT} :
        (w # v \/ x # c) => iptable'[w][x] = iptable[w][x]

\* What a firewall call fc on chain c with rule r may do.  head: an added rule
\* goes to the head of the chain, else to its end.
fwContract(fc, c, r, head, verb, what) ==
    LET v == IF fc.transport.v6 THEN "IPv6" ELSE "IPv4"
        old == iptable[v][c]
        new == iptable'[v][c]
    IN  IF fc.transport.err # "nil"
          THEN fc.err = fc.transport.err /\ fc.msg = "" /\ iptable' = iptable
          ELSE /\ otherChainsKept(v, c)
               /\ IF fc.err # "nil"
                    THEN /\ fc.msg = "could not " \o verb \o " " \o what
                         /\ iptable' = iptable
                    ELSE /\ fc.msg = ""
                         /\ IF fc.add
                              THEN /\ r \in Range(new)
                                   /\ new = IF r \in Range(old) THEN old
                                            ELSE IF head THEN << r >> \o old
                                            ELSE old \o << r >>
                              ELSE /\ r \notin Range(new)
                                   /\ Range(new) = Range(old) \ {r}
                                   /\ Len(new) = Len(old) - (IF r \in Range(old) THEN 1 ELSE 0)

(* C21.  programMangle and programInput return the error of the table      *)
(* lookup and leave every chain as it is when the transport family cannot  *)
(* be resolved.  Otherwise, on success with add the rule of the VNI is in  *)
(* the chain of the resolved version (a rule not yet there is appended to  *)
(* mangle/OUTPUT, resp. inserted at the head of filter/INPUT with target   *)
(* DROP), with add = false that rule is gone and nothing else changes; a   *)
(* failure of the rule programming is returned wrapped in "could not       *)
(* install|remove mangle rule", "could not add|remove input drop rule".    *)
C21_FirewallRules ==
    [][ /\ fwCalled("programMangle") =>
             LET fc == fwRet'[1]
             IN  fwContract(fc, OUTPUT,
                            [pol |-> "", vni |-> fc.vni, jump |-> "MARK", setMark |-> mark],
                            FALSE, IF fc.add THEN "install" ELSE "remove", "mangle rule")
        /\ fwCalled("programInput") =>
             LET fc == fwRet'[1]
             IN  fwContract(fc, INPUT,
                            [pol |-> "none", vni |-> fc.vni, jump |-> "DROP", setMark |-> 0],
                            TRUE, IF fc.add THEN "add" ELSE "remove", "input drop rule")
      ]_vars

\* programInput has put the DROP rule of a VNI above the rule of another
\* VNI and the administrator's ACCEPT on the IPv4 transport, where a mangle
\* rule is installed as well; the IPv6 mangle chain is empty.
C21_Witness ==
    /\ fwRet # <<>> /\ fwLast.name = "programInput" /\ fwLast.add /\ fwLast.err = "nil"
    /\ ~fwLast.transport.v6
    /\ Len(iptable["IPv4"][INPUT]) = 3
    /\ iptable["IPv4"][INPUT][1] = inputRule(fwLast.vni)
    /\ iptable["IPv4"][INPUT][3] = acceptVXLAN
    /\ iptable["IPv4"][OUTPUT] # <<>>
    /\ iptable["IPv6"][OUTPUT] = <<>>
----------------------------------------------------------------------------
\* Signals Trap's goroutine has taken from the channel so far.
processed == interruptCount + (IF exitCode # 0 THEN 1 ELSE 0)

(* C22.  Trap starts cleanup exactly once: when it processes the first     *)
(* signal, whichever of SIGINT and SIGTERM it is, and at no later signal.  *)
C22_CleanupOnce ==
    [][ /\ cleanups' = IF processed' >= 1 THEN 1 ELSE 0
        /\ cleanups' # cleanups => processed = 0 /\ processed' = 1
      ]_vars

\* Four signals of both kinds were received and processed, the last one
\* ending the process, and cleanup was started once.
C22_Witness ==
    /\ cleanups = 1
    /\ processed = 4
    /\ exitCode = 128 + SIGTERM
    /\ received >= 4

(* C23.  The process is terminated when Trap processes the third signal:   *)
(* it runs while fewer than three signals have been processed and has      *)
(* exited, with code 128 + the signal number, once three have been.        *)
C23_ForcedExitOnThird ==
    /\ processed < 3 => exitCode = 0
    /\ processed >= 3 => exitCode \in {128 + SIGINT, 128 + SIGTERM}
----------------------------------------------------------------------------
\* The call the volume service has just answered, and the one before it.
volLast == volRet[1]
volCalled(name) == volRet' # volRet /\ volRet'[1].call = name

----------------------------------------------------------------------------
\* This step is a kernel request of programSA or programSP.
requests ==
    /\ pc = "xfrm" /\ script # <<>> /\ script' = Tail(script)
    /\ Head(script).kind \in {"SA", "SP"}

\* The kernel holds the object of request q.
found(q) == IF q.kind = "SA" THEN XfrmStateGet(xfrmStates, q.obj)
                             ELSE XfrmPolicyGet(xfrmPolicies, q.obj)

\* This step has issued the kernel call that request q is for.
issued(q) ==
    /\ Len(klog') = Len(klog) + 1
    /\ \A i \in 1..Len(klog) : klog'[i] = klog[i]
    /\ klog'[Len(klog')].obj = q.obj
    /\ klog'[Len(klog')].call =
          (IF q.kind = "SA" THEN "XfrmState" ELSE "XfrmPolicy") \o (IF q.add THEN "Add" ELSE "Del")

(* C26.  programSA and programSP issue the add or the delete of an object  *)
(* exactly when the requested state differs from what the existence query  *)
(* says: an object already in the requested state costs no call and        *)
(* changes nothing, "not found" counts as absent without an error, and a   *)
(* query that fails otherwise makes the call be issued whatever the kernel *)
(* holds.  A call that succeeds leaves the object present, resp. absent;   *)
(* one that fails leaves the kernel as it is.                              *)
C26_ProgramWhenDifferent ==
    [][ requests =>
          LET q == Head(script)
          IN
            /\ ~lastErr' /\ q.add = found(q) =>
                  klog' = klog /\ xfrmStates' = xfrmStates /\ xfrmPolicies' = xfrmPolicies
            /\ ~lastErr' /\ q.add # found(q) => issued(q)
            /\ lastErr' => issued(q)
            /\ issued(q) /\ klog'[Len(klog')].ok =>
                  IF q.kind = "SA" THEN XfrmStateGet(xfrmStates', q.obj) = q.add
                                   ELSE XfrmPolicyGet(xfrmPolicies', q.obj) = q.add
            /\ issued(q) /\ ~klog'[Len(klog')].ok =>
                  xfrmStates' = xfrmStates /\ xfrmPolicies' = xfrmPolicies
      ]_vars

\* A removal whose query failed was attempted although the kernel did not
\* hold the object, after an add that was skipped or failed.
C26_Witness ==
    /\ pc = "xfrm" /\ lastErr
    /\ op.name = "removeEncryption"
    /\ klog # <<>>
    /\ klog[Len(klog)].call = "XfrmStateDel"
    /\ klog[Len(klog)].ok
    /\ \A sa \in xfrmStates : sa.Reqid # mark \/ (sa.Src # op.remote /\ sa.Dst # op.remote)

----------------------------------------------------------------------------
\* Request q asks to delete the SA with the given SPI pair towards (fwd) or
\* from peer r.
delsSA(q, r, pair, fwd) ==
    /\ q.kind = "SA" /\ ~q.add
    /\ q.obj.Src = (IF fwd THEN bindAddress ELSE r)
    /\ q.obj.Dst = (IF fwd THEN r ELSE bindAddress)
    /\ q.obj.Spi = (IF fwd THEN pair.forward ELSE pair.reverse)

\* Request q asks to delete the outbound policy of peer r.
delsSP(q, r, pair) ==
    /\ q.kind = "SP" /\ ~q.add
    /\ q.obj.Src = bindAddress /\ q.obj.Dst = r /\ q.obj.Mark = mark
    /\ q.obj.Tmpl = pair.forward

\* The running removeEncryption found r with reference count 1.
tornDown(r) == op.name = "removeEncryption" /\ op.remote = r /\ ~op.fresh
               /\ r \notin DOMAIN secMap

(* C27.  A removeEncryption(r) that finds r with reference count 1,        *)
(* whatever accepted updateKeys calls came before, drops r from secMap and *)
(* requests, in this order, the delete of the reverse SA and of the        *)
(* forward SA of r's SPI pair at index 0, of the outbound policy, and of   *)
(* the reverse SA of every other pair of r; when it returns (no kernel     *)
(* call failing) the kernel holds no SA and no policy with the driver's    *)
(* mark from or to r.                                                      *)
C27_RemoveTearsDown ==
    [][ \A r \in Remotes :
          /\ callsRemove(r) /\ Node(secMap, r).count = 1 =>
                LET spi == secMap[r].spi
                IN  /\ r \notin DOMAIN secMap'
                    /\ spi # <<>> =>
                          /\ Len(script') = Len(spi) + 2
                          /\ delsSA(script'[1], r, spi[1], FALSE)
                          /\ delsSA(script'[2], r, spi[1], TRUE)
                          /\ delsSP(script'[3], r, spi[1])
                          /\ \A i \in 2..Len(spi) :
                                delsSA(script'[i + 2], r, spi[i], FALSE)
          /\ returns("removeEncryption", "nil") /\ tornDown(r) =>
                /\ kernelOf(xfrmStates', xfrmPolicies', r).sa = {}
                /\ kernelOf(xfrmStates', xfrmPolicies', r).sp = {}
      ]_vars

----------------------------------------------------------------------------
\* The SAs with the driver's mark from or to one of the peers the driver is
\* called with: those this instance of the driver has installed.
ownedSAs == { sa \in markedSAs(xfrmStates) : sa.Src \in Remotes \/ sa.Dst \in Remotes }

\* sa is the forward or the reverse SA of key k for peer r.
belongs(sa, r, k) ==
    \/ sa.Src = bindAddress /\ sa.Dst = r /\ sa.Spi = pairOf(r, k).forward
    \/ sa.Src = r /\ sa.Dst = bindAddress /\ sa.Spi = pairOf(r, k).reverse

(* C28.  Whenever no call is in progress (no kernel call failing), every   *)
(* SA the driver has installed is the forward or the reverse SA of a peer  *)
(* that is in secMap and of a key that is in the key list: no accepted     *)
(* updateKeys call, whatever its newKey, primary and pruneKey, leaves an   *)
(* SA in the kernel for a key that is no longer in the key list.           *)
C28_NoOrphanSA ==
    idle => \A sa \in ownedSAs :
                \E r \in DOMAIN secMap : \E i \in 1..Len(keys) : belongs(sa, r, keys[i])

----------------------------------------------------------------------------
\* An updateKeys call that has passed the two checks is running.
validated == op.name = "updateKeys" /\ pc \in {"loop", "xfrm"}

(* C29.  An updateKeys call that has passed the validation never indexes    *)
(* the key list or a peer's SPI list out of range: no step of it panics,   *)
(* and when it returns, it returns nil with a key at index 0 of the key    *)
(* list (the list having had a key when the call was made).  This holds   *)
(* as well for a call that prunes the key at index 0 and promotes no key.  *)
C29_ValidatedCompletes ==
    [][ validated =>
          /\ pc' # "panic"
          /\ pc' = "idle" => op'.rc = "nil" /\ (op.keys0 # <<>> => keys' # <<>>)
      ]_vars

----------------------------------------------------------------------------
\* updateKeys(primary=P, pruneKey=Q) returns nil in this step, having found Q
\* at index 0 and P at a later index of the key list.
rotates(P, Q) ==
    /\ updateKeysDone(nil, P, Q)
    /\ op.keys0 # <<>> /\ At(op.keys0, 0).tag = Q.tag
    /\ keyIdx(op.keys0, P) > 0

(* C30.  When updateKeys(primary=P, pruneKey=Q) returns, Q having been at  *)
(* index 0 and P at an index i > 0: P is at index 0 of the key list, no    *)
(* key of the list and no SPI pair of any peer is Q's, the kernel holds    *)
(* neither the forward nor the reverse SA of Q for any peer, and every     *)
(* peer's SPI list is again the key list's, index by index.                *)
C30_RotateAndPrune ==
    [][ \A P \in KeyPool, Q \in KeyPool :
          rotates(P, Q) =>
            /\ keys' # <<>> /\ At(keys', 0) = P
            /\ Q.tag \notin tagsOf(keys')
            /\ \A r \in peers0 :
                  /\ r \in DOMAIN secMap'
                  /\ \A i \in 1..Len(secMap'[r].spi) : secMap'[r].spi[i] # pairOf(r, Q)
                  /\ fwdSAof(xfrmStates', r, Q) = {}
                  /\ revSAof(xfrmStates', r, Q) = {}
                  /\ Len(secMap'[r].spi) = Len(keys')
                  /\ \A i \in 1..Len(keys') : secMap'[r].spi[i] = pairOf(r, keys'[i])
      ]_vars

----------------------------------------------------------------------------
\* Every kernel call the running call has made has succeeded.
allOk == \A i \in 1..Len(klog) : klog[i].ok

(* C33.  Within a setKeys call the cleanup comes first: while the stale     *)
(* policies and states are being deleted the key list and secMap are still *)
(* those the call found, and the call returns, with nil, only when no      *)
(* deletion is left to do.  When it returns secMap is empty and the key    *)
(* list is the list supplied; when no kernel call of it failed, no policy  *)
(* and no state with the driver's mark is left in the kernel.              *)
C33_SetKeysClearsFirst ==
    [][ /\ (calls' = calls + 1 /\ op'.name = "setKeys") =>
              keys' = keys /\ secMap' = secMap
        /\ (op.name = "setKeys" /\ pc = "xfrm" /\ pc' = "xfrm") =>
              keys' = op.keys0 /\ secMap' = op.secMap0
        /\ (op.name = "setKeys" /\ pc = "xfrm" /\ pc' # "xfrm") =>
              /\ returns("setKeys", "nil")
              /\ script = <<>>
              /\ keys' = op.arg
              /\ secMap' = <<>>
              /\ allOk => /\ markedSAs(xfrmStates') = {}
                          /\ markedSPs(xfrmPolicies') = {}
      ]_vars

\* A setKeys that found keys and a peer has finished its cleanup, every
\* deletion having succeeded, and has not yet assigned the new key list.
C33_Witness ==
    /\ pc = "xfrm" /\ op.name = "setKeys" /\ script = <<>>
    /\ op.keys0 # <<>> /\ DOMAIN op.secMap0 # {}
    /\ keys = op.keys0 /\ keys # op.arg /\ secMap = op.secMap0
    /\ Len(klog) >= 6 /\ allOk
    /\ markedSAs(xfrmStates) = {} /\ markedSPs(xfrmPolicies) = {}
    /\ otherSA \in xfrmStates /\ otherSP \in xfrmPolicies

----------------------------------------------------------------------------
\* The SAs in node x's kernel by which x sends to its peer.
forwardSAs(x) ==
    { sa \in cluster[x].sa : sa.Reqid = mark /\ sa.Src = addr(x) /\ sa.Dst = addr(peer(x)) }

\* Node y can decrypt what its peer encrypts with sa: y's kernel holds the SA
\* from the peer with sa's SPI and sa's key.
decrypts(y, sa) ==
    \E r \in cluster[y].sa :
        /\ r.Reqid = mark /\ r.Src = sa.Src /\ r.Dst = sa.Dst /\ r.Dst = addr(y)
        /\ r.Spi = sa.Spi /\ r.Aead = sa.Aead

----------------------------------------------------------------------------
\* Node x is between two calls.
settled(x) == ~cluster[x].busy

(* C32.  The SPI of a pair depends on source, tag and destination only.    *)
(* On either node, between calls, the pair at index i of the peer's list,  *)
(* whether setupEncryption derived it or updateKeys did, is                *)
(* (buildSPI(own, peer, tag), buildSPI(peer, own, tag)) for the tag of the *)
(* key at index i, which is what setupEncryption derives for the key list  *)
(* as it is now; and for a tag both nodes hold, the forward SPI of one     *)
(* node is the reverse SPI of the other.                                   *)
C32_SpiDerivation ==
    \A x \in DOMAIN cluster :
        LET n == cluster[x]
            m == cluster[peer(x)]
        IN  /\ settled(x) =>
                  /\ Len(n.spi) = Len(n.keys)
                  /\ \A i \in 1..Len(n.keys) :
                        /\ n.spi[i].forward = buildSPI(addr(x), addr(peer(x)), n.keys[i].tag)
                        /\ n.spi[i].reverse = buildSPI(addr(peer(x)), addr(x), n.keys[i].tag)
                  /\ n.spi = setupIndices(addr(x), addr(peer(x)), n.keys)
            /\ settled(x) /\ settled(peer(x)) =>
                  \A i \in 1..Len(n.keys), j \in 1..Len(m.keys) :
                      n.keys[i].tag = m.keys[j].tag => n.spi[i].forward = m.spi[j].reverse

\* Node A has rotated twice, node B once: A holds two pairs that updateKeys
\* derived, one of which B has derived as well, and one that setupEncryption
\* derived on both.
C32_Witness ==
    /\ DOMAIN cluster = Nodes
    /\ settled("A") /\ settled("B")
    /\ cluster["A"].done = 2 /\ cluster["B"].done = 1
    /\ \E i \in 1..Len(cluster["A"].keys) : cluster["A"].keys[i] = rotKey(3)
    /\ \E j \in 1..Len(cluster["B"].keys) : cluster["B"].keys[j] = rotKey(4)

----------------------------------------------------------------------------
\* No call holds a lock of the driver.
unlocked == encrMu = 0 /\ mu = 0

(* C34.  setKeys, setupEncryption, removeEncryption and updateKeys release  *)
(* encrMu on every return path, the error returns included: no lock is     *)
(* held when no call is in progress.  setupEncryption has released d.mu    *)
(* when it makes its kernel calls.  Under a fair scheduler, kernel calls    *)
(* terminating, every call that has taken the lock returns, so that a      *)
(* waiting call gets the lock.                                             *)
C34_LocksReleased ==
    /\ [](pc = "idle" => unlocked)
    /\ [](pc = "xfrm" => mu = 0)
    /\ (encrMu = 1 ~> pc = "idle")

----------------------------------------------------------------------------
(* C35.  The channel that CopyStreams returns gets exactly one value, and   *)
(* its sender never finds the channel full.  When the select receives the   *)
(* group's result, every copy goroutine has finished and the value is the   *)
(* group's error, nil when no copy failed.  When the select takes the        *)
(* cancellation, the container's pipes and the client's stdin are closed,    *)
(* the copy goroutines have finished when the value is sent, and the value   *)
(* is the group's error if there is one, otherwise the context's error.      *)
(* Once every copy goroutine has finished or the context is cancelled, the   *)
(* value is eventually sent.                                                 *)
C35_OneResult ==
    /\ [](selector \in {"send", "forward"} => errs = <<>>)
    /\ [][errs' # errs =>
            /\ Len(errs') = 1
            /\ allDone
            /\ IF selector = "forward"
               THEN errs' = << group >>
               ELSE /\ ctxDone
                    /\ allPipes \subseteq closed
                    /\ errs' = << IF group # "nil" THEN group ELSE ctxErr >>]_vars
    /\ [][selector = "select" /\ selector' = "wait" => ctxDone /\ allPipes \subseteq closed']_vars
    /\ (allDone \/ ctxDone ~> Len(errs) = 1)

\* The context was cancelled while the three copies ran; the selecting
\* goroutine closed the pipes, the copies returned, one of them with an error,
\* and that error is the value of the channel.
C35_Witness ==
    /\ cfg.Stdin /\ cfg.Stdout /\ cfg.Stderr
    /\ ctxDone
    /\ selector = "end"
    /\ waiter = "wait"
    /\ allPipes \subseteq closed
    /\ errs = << wrapped("Stdout") >>

(* C35 as stated: the value is decided by what happens first.  If every     *)
(* copy goroutine has finished before the context is cancelled, the value    *)
(* is the group's error, nil when no copy failed; if the context is          *)
(* cancelled while a copy runs, the pipes and the client's stdin are closed  *)
(* and the value is the group's error if there is one, otherwise the         *)
(* context's error.  Exactly one value is sent, without blocking.            *)
C35_FirstDecides ==
    /\ [](selector \in {"send", "forward"} => errs = <<>>)
    /\ [](allDone /\ ~ctxDone => [](errs # <<>> => errs = << group >>))
    /\ [](ctxDone /\ ~allDone =>
            [](errs # <<>> =>
                  /\ allPipes \subseteq closed
                  /\ errs = << IF group # "nil" THEN group ELSE ctxErr >>))
    /\ (allDone \/ ctxDone ~> Len(errs) = 1)
====
